---- MODULE Spec2Model ----
(***************************************************************************)
(* Writely: the content codec (lib/encryption), the text extraction and    *)
(* word count (lib/contentUtils), the chapter PATCH route with the Chapter *)
(* pre-save hook, the editor auto-save scheduler (useEditorAutoSave) and   *)
(* the optimistic client store (useEditor).                                *)
(*                                                                         *)
(* Text is a sequence of one-character strings.  A content value is one of *)
(*   Str(s)            a JavaScript string                                 *)
(*   Num(ds)           a JSON number, kept as its digits                   *)
(*   Node(...)         a Tiptap node {text?, content?}                     *)
(*   Arr(xs)           a JavaScript array of nodes                         *)
(***************************************************************************)
EXTENDS Integers, Sequences, FiniteSets, TLC

VARIABLES
    \* ---- content codec run (encryptContent / tamper / decryptContent)
    cpc, cin, crec, cout, ctamper,
    \* ---- server: chapters collection, project stats, PATCH requests
    dbChapters, dbTotal, srvReqs, srvLog, srvCount,
    \* ---- auto-save scheduler (useEditorAutoSave)
    timerArmed, pendingData, emitted, owed, batch, nEdits, mounted, schedLast,
    \* ---- client store (useEditor) and its gateway
    chapters, cache, activeChapter, activeChapterId, saveStatus, novelWords,
    storeError, inflight, gateway, nextSeq, lastOp, lastSave,
    \* ---- client store, comment handlers (useEditor) and their gateway
    cmtActiveChapter, cmtActiveChapterId, cmtCache, cmtError, cmtCalls,
    cmtDocs, cmtNextOid, cmtNow, cmtSeq, cmtLast,
    \* ---- the server process and its ENCRYPTION_KEY
    envKey, envPhase, keyLog,
    \* ---- a call of ContentUtils.countWords or extractTextFromTiptap
    cuPc, cuNode, cuType, cuOut,
    \* ---- the editor page: the scheduler's onAutoSave wired to autoSave
    pgActiveChapterId, pgSaves, pgEditedIn

codecVars == <<cpc, cin, crec, cout, ctamper>>
srvVars   == <<dbChapters, dbTotal, srvReqs, srvLog, srvCount>>
schedVars == <<timerArmed, pendingData, emitted, owed, batch, nEdits, mounted, schedLast>>
storeVars == <<chapters, cache, activeChapter, activeChapterId, saveStatus,
               novelWords, storeError, inflight, gateway, nextSeq, lastOp, lastSave>>
cmtVars == <<cmtActiveChapter, cmtActiveChapterId, cmtCache, cmtError, cmtCalls,
             cmtDocs, cmtNextOid, cmtNow, cmtSeq, cmtLast>>
keyVars == <<envKey, envPhase, keyLog>>
cuVars == <<cuPc, cuNode, cuType, cuOut>>
pgVars == <<pgActiveChapterId, pgSaves, pgEditedIn>>
vars == <<codecVars, srvVars, schedVars, storeVars, cmtVars, keyVars, cuVars, pgVars>>

Null == [k |-> "null"]

(***************************************************************************)
(* Bounds of the model.                                                    *)
(***************************************************************************)
MaxStrLen == 2      \* longest sample string
NumIvs == 2         \* how many distinct initialization vectors randomBytes may return
MaxEdits == 3       \* editing events (scheduleSave calls and Ctrl+S) in one run
MaxSrvReqs == 2     \* requests the server receives in one run

(***************************************************************************)
(* Text helpers.                                                           *)
(***************************************************************************)
IsSpace(c) == c \in {" ", "\n"}

RECURSIVE JoinWith(_, _)
JoinWith(ss, sep) ==
    IF ss = <<>> THEN <<>>
    ELSE IF Len(ss) = 1 THEN Head(ss)
    ELSE Head(ss) \o sep \o JoinWith(Tail(ss), sep)

RECURSIVE TrimStart(_)
TrimStart(s) ==
    IF s # <<>> /\ IsSpace(Head(s)) THEN TrimStart(Tail(s)) ELSE s

RECURSIVE TrimEnd(_)
TrimEnd(s) ==
    IF s # <<>> /\ IsSpace(s[Len(s)]) THEN TrimEnd(SubSeq(s, 1, Len(s) - 1)) ELSE s

\* String.prototype.trim
Trim(s) == TrimEnd(TrimStart(s))

\* the k-th smallest element of a set of numbers
Kth(S, k) == CHOOSE p \in S : Cardinality({q \in S : q < p}) = k - 1

\* String.prototype.split(sep) for a one-character separator: one part more
\* than there are separators, empty parts kept.
SplitOn(s, sep) ==
    LET P == {i \in 1..Len(s) : s[i] = sep}
        n == Cardinality(P)
        cut(k) == IF k = 0 THEN 0
                  ELSE IF k = n + 1 THEN Len(s) + 1
                  ELSE Kth(P, k)
    IN  [k \in 1..(n + 1) |-> SubSeq(s, cut(k - 1) + 1, cut(k) - 1)]

\* String.prototype.split(/\s+/): a run of whitespace is one separator,
\* a leading or trailing run leaves an empty part, "" gives [""].
SplitWs(s) ==
    IF s = <<>> THEN << <<>> >>
    ELSE LET starts == {i \in 1..Len(s) : ~IsSpace(s[i]) /\ (i = 1 \/ IsSpace(s[i - 1]))}
             ends == {i \in 1..Len(s) : ~IsSpace(s[i]) /\ (i = Len(s) \/ IsSpace(s[i + 1]))}
             words == [k \in 1..Cardinality(starts) |-> SubSeq(s, Kth(starts, k), Kth(ends, k))]
         IN  (IF IsSpace(s[1]) THEN << <<>> >> ELSE <<>>) \o words
             \o (IF IsSpace(s[Len(s)]) THEN << <<>> >> ELSE <<>>)

\* Array.prototype.filter(Boolean) on strings: drops the empty ones.
FilterNonEmpty(ss) == SelectSeq(ss, LAMBDA x : x # <<>>)

\* Index of the first ">" in s, 0 when there is none.
RECURSIVE IndexOfGt(_, _)
IndexOfGt(s, i) ==
    IF i > Len(s) THEN 0 ELSE IF s[i] = ">" THEN i ELSE IndexOfGt(s, i + 1)

\* content.replace(/<[^>]*>/g, ' ')
RECURSIVE StripTags(_)
StripTags(s) ==
    IF s = <<>> THEN <<>>
    ELSE IF Head(s) = "<" /\ IndexOfGt(Tail(s), 1) > 0
         THEN <<" ">> \o StripTags(SubSeq(Tail(s), IndexOfGt(Tail(s), 1) + 1, Len(s) - 1))
    ELSE <<Head(s)>> \o StripTags(Tail(s))

(***************************************************************************)
(* Content values.                                                         *)
(***************************************************************************)
Str(s) == [k |-> "str", s |-> s]
Num(ds) == [k |-> "num", ds |-> ds]
Arr(xs) == [k |-> "arr", xs |-> xs]
Node(hasText, text, hasContent, content) ==
    [k |-> "node", hasText |-> hasText, text |-> text,
     hasContent |-> hasContent, content |-> content]
TextNode(t) == Node(TRUE, t, FALSE, <<>>)
Parent(xs) == Node(FALSE, <<>>, TRUE, xs)

\* { content: [ { content: [ { text: "a" } ] } ] }
DocOneWord == Parent(<<Parent(<<TextNode(<<"a">>)>>)>>)
\* two paragraphs, "a" and "b"
DocTwoWords == Parent(<<Parent(<<TextNode(<<"a">>)>>), Parent(<<TextNode(<<"b">>)>>)>>)
\* one paragraph holding the text runs "a b" and "1"
DocThreeWords == Parent(<<Parent(<<TextNode(<<"a", " ", "b">>), TextNode(<<"1">>)>>)>>)
DocEmpty == Parent(<<>>)
SampleDocs == {DocOneWord, DocTwoWords, DocThreeWords, DocEmpty}

Alphabet == {"a", " ", "1"}
RECURSIVE StringsUpTo(_)
StringsUpTo(n) ==
    IF n = 0 THEN {<<>>}
    ELSE LET shorter == StringsUpTo(n - 1)
         IN  shorter \cup {Append(s, c) : s \in {t \in shorter : Len(t) = n - 1}, c \in Alphabet}
SampleStrings == StringsUpTo(MaxStrLen)

(***************************************************************************)
(* ContentUtils (lib/contentUtils).                                        *)
(***************************************************************************)
\* JavaScript truthiness of a content value.
Truthy(v) == ~(v = Null \/ (v.k = "str" /\ v.s = <<>>))

RECURSIVE extractTextFromTiptapMutChildrenFirst(_)
extractTextFromTiptapMutChildrenFirst(node) ==
    IF ~Truthy(node) THEN <<>>
    ELSE IF node.k = "str" THEN node.s
    ELSE IF node.k = "arr"
         THEN JoinWith([i \in 1..Len(node.xs) |->
                           extractTextFromTiptapMutChildrenFirst(node.xs[i])], <<" ">>)
    ELSE IF node.k = "node"
         THEN LET t1 == IF node.hasText /\ node.text # <<>>
                        THEN <<" ">> \o node.text ELSE <<>>
                  t2 == IF node.hasContent
                        THEN <<" ">> \o extractTextFromTiptapMutChildrenFirst(Arr(node.content))
                        ELSE <<>>
              IN  Trim(t2 \o t1)
    ELSE <<>>

RECURSIVE extractTextFromTiptap(_)
extractTextFromTiptap(node) ==
    IF ~Truthy(node) THEN <<>>
    ELSE IF node.k = "str" THEN node.s
    ELSE IF node.k = "arr"
         THEN JoinWith([i \in 1..Len(node.xs) |-> extractTextFromTiptap(node.xs[i])], <<" ">>)
    ELSE IF node.k = "node"
         THEN LET t1 == IF node.hasText /\ node.text # <<>>
                        THEN <<" ">> \o node.text ELSE <<>>
                  t2 == IF node.hasContent
                        THEN <<" ">> \o extractTextFromTiptap(Arr(node.content)) ELSE <<>>
              IN  Trim(t1 \o t2)
    ELSE <<>>

ContentTypes == {"tiptap", "html", "markdown"}

countWordsMutNoFilter(content, type) ==
    LET plainText ==
            IF type = "tiptap" THEN extractTextFromTiptap(content)
            ELSE IF type = "html"
                 THEN IF content.k = "str" THEN StripTags(content.s) ELSE <<>>
            ELSE IF content.k = "str" THEN content.s ELSE <<>>
    IN  Len(SplitWs(Trim(plainText)))

countWords(content, type) ==
    LET plainText ==
            IF type = "tiptap" THEN extractTextFromTiptap(content)
            ELSE IF type = "html"
                 THEN IF content.k = "str" THEN StripTags(content.s) ELSE <<>>
            ELSE IF content.k = "str" THEN content.s ELSE <<>>
    IN  Len(FilterNonEmpty(SplitWs(Trim(plainText))))

(***************************************************************************)
(* Bytes, hex and JSON as the codec uses them.                             *)
(***************************************************************************)
CharTable ==
    <<  <<" ", 32>>, <<"\"", 34>>, <<",", 44>>, <<"1", 49>>, <<":", 58>>,
        <<"[", 91>>, <<"]", 93>>, <<"a", 97>>, <<"b", 98>>, <<"c", 99>>,
        <<"e", 101>>, <<"n", 110>>, <<"o", 111>>, <<"t", 116>>, <<"x", 120>>,
        <<"{", 123>>, <<"}", 125>>  >>

\* the UTF-8 byte of a character, and back ("?" for a byte outside the table)
ByteTable == [c \in {CharTable[i][1] : i \in 1..Len(CharTable)} |->
                 CharTable[CHOOSE i \in 1..Len(CharTable) : CharTable[i][1] = c][2]]
CharOfTable == [b \in {CharTable[i][2] : i \in 1..Len(CharTable)} |->
                 CharTable[CHOOSE i \in 1..Len(CharTable) : CharTable[i][2] = b][1]]
ByteOfChar(c) == ByteTable[c]
CharOfByte(b) == IF b \in DOMAIN CharOfTable THEN CharOfTable[b] ELSE "?"
Utf8Encode(s) == [i \in 1..Len(s) |-> ByteOfChar(s[i])]
Utf8Decode(bs) == [i \in 1..Len(bs) |-> CharOfByte(bs[i])]

HexLower == <<"0", "1", "2", "3", "4", "5", "6", "7", "8", "9", "a", "b", "c", "d", "e", "f">>
HexUpper == <<"0", "1", "2", "3", "4", "5", "6", "7", "8", "9", "A", "B", "C", "D", "E", "F">>

\* the value of a hex digit of either case, -1 for any other character
HexValTable ==
    [c \in {HexLower[i] : i \in 1..16} \cup {HexUpper[i] : i \in 1..16} |->
        IF \E i \in 1..16 : HexLower[i] = c
        THEN (CHOOSE i \in 1..16 : HexLower[i] = c) - 1
        ELSE (CHOOSE i \in 1..16 : HexUpper[i] = c) - 1]
HexVal(c) == IF c \in DOMAIN HexValTable THEN HexValTable[c] ELSE -1

\* Buffer.toString('hex'): two lower-case digits per byte
ToHex(bs) ==
    [i \in 1..(2 * Len(bs)) |->
        IF i % 2 = 1 THEN HexLower[(bs[(i + 1) \div 2] \div 16) + 1]
        ELSE HexLower[(bs[i \div 2] % 16) + 1]]

\* Buffer.from(s, 'hex'): whole pairs of hex digits, stopping at the first
\* pair that holds a character that is no hex digit
FromHex(s) ==
    LET pairs == Len(s) \div 2
        bad == {i \in 1..pairs : HexVal(s[2 * i - 1]) < 0 \/ HexVal(s[2 * i]) < 0}
        n == IF bad = {} THEN pairs ELSE (CHOOSE i \in bad : \A j \in bad : i <= j) - 1
    IN  [i \in 1..n |-> HexVal(s[2 * i - 1]) * 16 + HexVal(s[2 * i])]

\* /^[0-9a-f]+$/i
IsHexString(s) == s # <<>> /\ \A i \in 1..Len(s) : HexVal(s[i]) >= 0

Quote(t) == <<"\"">> \o t \o <<"\"">>

\* JSON.stringify of a content value
RECURSIVE JsonStringify(_)
JsonStringify(v) ==
    IF v.k = "num" THEN v.ds
    ELSE IF v.k = "str" THEN Quote(v.s)
    ELSE IF v.k = "arr"
         THEN <<"[">> \o JoinWith([i \in 1..Len(v.xs) |-> JsonStringify(v.xs[i])], <<",">>) \o <<"]">>
    ELSE LET fText == IF v.hasText
                      THEN << <<"\"", "t", "e", "x", "t", "\"", ":">> \o Quote(v.text) >>
                      ELSE <<>>
             fContent == IF v.hasContent
                         THEN << <<"\"", "c", "o", "n", "t", "e", "n", "t", "\"", ":">>
                                 \o JsonStringify(Arr(v.content)) >>
                         ELSE <<>>
         IN  <<"{">> \o JoinWith(fText \o fContent, <<",">>) \o <<"}">>

IsDigits(t) == t # <<>> /\ \A i \in 1..Len(t) : t[i] = "1"

ParseError == [k |-> "syntaxError"]
DocText == [d \in SampleDocs |-> JsonStringify(d)]

\* JSON.parse, on the texts this model decrypts: sequences over Alphabet and
\* the serialisations of SampleDocs.  Surrounding whitespace is skipped, a
\* run of digits is a number, a serialised node parses to that node, and
\* anything else is a SyntaxError.
JsonParse(s) ==
    LET t == Trim(s)
    IN  IF IsDigits(t) THEN Num(t)
        ELSE IF \E d \in SampleDocs : DocText[d] = t
             THEN CHOOSE d \in SampleDocs : DocText[d] = t
        ELSE ParseError

(***************************************************************************)
(* lib/encryption: AES-256-GCM through node:crypto.  The primitive is      *)
(* modelled as an ideal authenticated stream cipher: the ciphertext is the *)
(* plaintext shifted by a key stream of (key, iv); the tag is a function   *)
(* of (key, iv, ciphertext) that differs whenever one ciphertext byte or   *)
(* the ciphertext's length differs; final() throws unless the tag given    *)
(* is the tag of what was fed in.                                          *)
(***************************************************************************)
IV_LENGTH == 16
AUTH_TAG_LENGTH == 16
KEY_LENGTH == 32
SEPARATOR == ":"

\* Buffer.from(process.env.ENCRYPTION_KEY, 'hex') for a valid 64-digit key
getEncryptionKey == [i \in 1..KEY_LENGTH |-> (37 * i + 11) % 256]

\* crypto.randomBytes(IV_LENGTH): one of NumIvs vectors
IvPool == {[i \in 1..IV_LENGTH |-> (r * 16 + i) % 256] : r \in 0..(NumIvs - 1)}

KeyStream(key, iv, i) ==
    (key[((i - 1) % Len(key)) + 1] + iv[((i - 1) % Len(iv)) + 1] + i) % 256

\* cipher.update + cipher.final
CipherBytes(key, iv, pt) == [i \in 1..Len(pt) |-> (pt[i] + KeyStream(key, iv, i)) % 256]
\* decipher.update
DecipherBytes(key, iv, ct) == [i \in 1..Len(ct) |-> (ct[i] + 256 - KeyStream(key, iv, i)) % 256]

RECURSIVE SumSeq(_)
SumSeq(xs) == IF xs = <<>> THEN 0 ELSE Head(xs) + SumSeq(Tail(xs))

\* cipher.getAuthTag(): byte 1 carries the length, byte j + 2 the sum of the
\* ciphertext bytes of lane j (the positions i with (i - 1) % 15 = j)
AuthTag(key, iv, ct) ==
    LET ivSum == SumSeq(iv)
        lane(j) == SumSeq([m \in 1..((Len(ct) - j + AUTH_TAG_LENGTH - 2) \div (AUTH_TAG_LENGTH - 1)) |->
                              ct[j + 1 + (m - 1) * (AUTH_TAG_LENGTH - 1)]])
    IN  [j \in 1..AUTH_TAG_LENGTH |->
            IF j = 1 THEN (Len(ct) + key[1] + ivSum) % 256
            ELSE (key[j] + ivSum + lane(j - 2)) % 256]

encryptContentMutFixedIv(content, iv) ==
    LET plaintext == IF content.k = "str" THEN content.s ELSE JsonStringify(content)
        key == getEncryptionKey
        fixed == [i \in 1..IV_LENGTH |-> i]
        encrypted == ToHex(CipherBytes(key, fixed, Utf8Encode(plaintext)))
        authTag == ToHex(AuthTag(key, fixed, CipherBytes(key, fixed, Utf8Encode(plaintext))))
    IN  JoinWith(<<ToHex(fixed), authTag, encrypted>>, <<SEPARATOR>>)

\* encryptContent(content), with iv the vector randomBytes returned
encryptContent(content, iv) ==
    LET plaintext == IF content.k = "str" THEN content.s ELSE JsonStringify(content)
        key == getEncryptionKey
        encrypted == ToHex(CipherBytes(key, iv, Utf8Encode(plaintext)))
        authTag == ToHex(AuthTag(key, iv, CipherBytes(key, iv, Utf8Encode(plaintext))))
    IN  JoinWith(<<ToHex(iv), authTag, encrypted>>, <<SEPARATOR>>)

Thrown(why) == [k |-> "error", why |-> why]
IsThrown(v) == v.k = "error"

TagAcceptedMutAlways(key, iv, authTag, ct) == TRUE

\* the decipher accepts the tag: what final() checks
TagAccepted(key, iv, authTag, ct) == authTag = AuthTag(key, iv, ct)

\* the try/catch around JSON.parse at the end of decryptContent
parseOrRaw(decrypted) ==
    IF JsonParse(decrypted) = ParseError THEN Str(decrypted) ELSE JsonParse(decrypted)

\* decryptContent past its format check: [ivHex, authTagHex, encryptedData] = parts
decryptParts(parts) ==
    LET key == getEncryptionKey
        iv == FromHex(parts[1])
        authTag == FromHex(parts[2])
        ct == FromHex(parts[3])
    IN  IF iv = <<>> THEN Thrown("iv")
        ELSE IF Len(authTag) # AUTH_TAG_LENGTH THEN Thrown("tagLength")
        ELSE IF ~TagAccepted(key, iv, authTag, ct) THEN Thrown("auth")
        ELSE parseOrRaw(Utf8Decode(DecipherBytes(key, iv, ct)))

decryptContentMutNoFormatCheck(encryptedString) ==
    LET parts == SplitOn(encryptedString, SEPARATOR)
    IN  IF Len(parts) < 3 THEN Str(encryptedString) ELSE decryptParts(parts)

decryptContent(encryptedString) ==
    LET parts == SplitOn(encryptedString, SEPARATOR)
    IN  IF Len(parts) # 3 THEN Thrown("format") ELSE decryptParts(parts)

isEncryptedMutCaseSensitive(content) ==
    /\ content.k = "str"
    /\ LET parts == SplitOn(content.s, SEPARATOR)
       IN  /\ Len(parts) = 3
           /\ \A i \in 1..3 :
                 parts[i] # <<>> /\ \A j \in 1..Len(parts[i]) :
                                       \E d \in 1..16 : HexLower[d] = parts[i][j]

isEncrypted(content) ==
    /\ content.k = "str"
    /\ LET parts == SplitOn(content.s, SEPARATOR)
       IN  /\ Len(parts) = 3
           /\ \A i \in 1..3 : IsHexString(parts[i])

(***************************************************************************)
(* A codec run: a value is encrypted, the stored record may have one of    *)
(* its hex characters changed, and the record is decrypted.                *)
(***************************************************************************)
CodecDocs == {DocOneWord, DocEmpty}
CodecInputs ==
    {Str(s) : s \in SampleStrings} \cup CodecDocs \cup {Str(DocText[DocEmpty])}

\* what a stored character can be overwritten with: the hex digits of both
\* cases, and two characters that are no hex digit
TamperChars ==
    {HexLower[i] : i \in 1..16} \cup {HexUpper[i] : i \in 1..16} \cup {"g", SEPARATOR}

\* the part of the record position i lies in
PartOf(rec, i) ==
    IF rec[i] = SEPARATOR THEN "sep"
    ELSE LET seps == Cardinality({j \in 1..(i - 1) : rec[j] = SEPARATOR})
         IN  IF seps = 0 THEN "iv" ELSE IF seps = 1 THEN "authTag" ELSE "ciphertext"

CodecInit ==
    /\ cpc = "idle"
    /\ cin = Null
    /\ crec = <<>>
    /\ cout = Null
    /\ ctamper = Null

CodecEncrypt ==
    /\ cpc = "idle"
    /\ \E x \in CodecInputs, iv \in IvPool :
          /\ cin' = x
          /\ crec' = encryptContent(x, iv)
    /\ cpc' = "encrypted"
    /\ UNCHANGED <<cout, ctamper>>

CodecTamper ==
    /\ cpc = "encrypted"
    /\ ctamper = Null
    /\ \E i \in {j \in 1..Len(crec) : PartOf(crec, j) \in {"authTag", "ciphertext"}} :
       \E c \in TamperChars \ {crec[i]} :
          /\ crec' = [crec EXCEPT ![i] = c]
          /\ ctamper' = [k |-> "tamper", pos |-> i, part |-> PartOf(crec, i),
                         old |-> crec[i], new |-> c]
    /\ UNCHANGED <<cpc, cin, cout>>

CodecDecrypt ==
    /\ cpc = "encrypted"
    /\ cout' = decryptContent(crec)
    /\ cpc' = "decrypted"
    /\ UNCHANGED <<cin, crec, ctamper>>

\* encryptContent called a second time with the same content; iv is what
\* crypto.randomBytes returns this time, which nothing keeps apart from what
\* it returned before
CodecEncryptAgain ==
    /\ cpc = "encrypted"
    /\ ctamper = Null
    /\ \E iv \in IvPool :
          cout' = [k |-> "record", iv |-> iv, rec |-> encryptContent(cin, iv)]
    /\ cpc' = "encryptedTwice"
    /\ UNCHANGED <<cin, crec, ctamper>>

\* the strings and values the two functions are called with directly
MaxProbeLen == 5
ProbeAlphabet == {SEPARATOR, "a", "F", "g"}
RECURSIVE ProbeStringsUpTo(_)
ProbeStringsUpTo(n) ==
    IF n = 0 THEN {<<>>}
    ELSE LET shorter == ProbeStringsUpTo(n - 1)
         IN  shorter \cup {Append(t, c) : t \in {u \in shorter : Len(u) = n - 1},
                                         c \in ProbeAlphabet}
ProbeStrings == ProbeStringsUpTo(MaxProbeLen)
ProbeValues == {Str(t) : t \in ProbeStrings} \cup CodecDocs \cup {Num(<<"1">>), Null}

\* decryptContent(encryptedString) called with any string
DecryptCall ==
    /\ cpc = "idle"
    /\ \E t \in ProbeStrings :
          /\ crec' = t
          /\ cout' = decryptContent(t)
    /\ cpc' = "probed"
    /\ UNCHANGED <<cin, ctamper>>

\* isEncrypted(content) called with any value
IsEncryptedCall ==
    /\ cpc = "idle"
    /\ \E v \in ProbeValues :
          /\ cin' = v
          /\ cout' = [k |-> "bool", v |-> isEncrypted(v)]
    /\ cpc' = "checked"
    /\ UNCHANGED <<crec, ctamper>>

\* toDecryptedObject(chapter): the content a chapter read answers with; a
\* throw of decryptContent leaves the service and becomes the error response
toDecryptedObject(stored) ==
    IF stored # <<>> /\ isEncrypted(Str(stored)) THEN decryptContent(stored) ELSE Str(stored)

\* GET /api/novels/[id]/chapters/[chapterId]: ChapterService.getChapter
ChapterGet ==
    /\ cpc = "encrypted"
    /\ cout' = toDecryptedObject(crec)
    /\ cpc' = "fetched"
    /\ UNCHANGED <<cin, crec, ctamper>>

\* GET editor-data: the content of firstChapter in the response
firstChapterContent(stored) ==
    IF isEncrypted(Str(stored))
    THEN IF IsThrown(decryptContent(stored)) THEN Str(<<>>) ELSE decryptContent(stored)
    ELSE Str(stored)

\* GET /api/novels/[id]/editor-data
EditorDataGet ==
    /\ cpc = "encrypted"
    /\ cout' = firstChapterContent(crec)
    /\ cpc' = "bootstrapped"
    /\ UNCHANGED <<cin, crec, ctamper>>


(***************************************************************************)
(* The server: the chapters collection, the project's stats, and the       *)
(* requests of /api/novels/[id]/chapters and .../[chapterId] in progress.  *)
(* Every await of a handler is a step; a request record carries the        *)
(* handler's locals.  Titles are opaque tokens that pass sanitizeString    *)
(* and isValidLength.                                                      *)
(***************************************************************************)
SrvTitles == {"T1"}
SrvContents == {DocOneWord, DocTwoWords, Str(<<>>)}

NoField == [has |-> FALSE]
Field(v) == [has |-> TRUE, v |-> v]
PatchBodies ==
    {[title |-> t, content |-> c] :
        t \in {NoField} \cup {Field(x) : x \in SrvTitles},
        c \in {NoField} \cup {Field(x) : x \in SrvContents}}

\* Chapter.create defaults (models/Chapter schema)
NewChapterDoc(id, title, order) ==
    [id |-> id, title |-> title, content |-> Str(<<>>), contentType |-> "tiptap",
     order |-> order, status |-> "draft", wordCount |-> 0]

\* ChapterSchema.pre('save')
preSave(doc, modified, isNew) ==
    IF ~modified /\ ~isNew THEN doc
    ELSE [doc EXCEPT !.wordCount = countWords(doc.content, doc.contentType)]

\* the whitelist of PATCH applied to the loaded document
patchApply(doc, body, iv) ==
    LET d1 == IF body.title.has THEN [doc EXCEPT !.title = body.title.v] ELSE doc
    IN  IF body.content.has
        THEN [d1 EXCEPT !.wordCount = countWords(body.content.v, d1.contentType),
                        !.content = Str(encryptContent(body.content.v, iv))]
        ELSE d1

\* chapter.toObject() with the content decrypted for the response
responseData(doc) ==
    IF Truthy(doc.content) /\ isEncrypted(doc.content)
    THEN [doc EXCEPT !.content = decryptContent(doc.content.s)]
    ELSE doc

\* Chapter.aggregate([$match, $group $sum wordCount])
aggregateWordCount(db) ==
    LET ids == DOMAIN db
        RECURSIVE Sum(_)
        Sum(S) == IF S = {} THEN 0
                  ELSE LET x == CHOOSE y \in S : TRUE IN db[x].wordCount + Sum(S \ {x})
    IN  Sum(ids)

SrvInit ==
    /\ dbChapters = (1 :> NewChapterDoc(1, "T0", 0))
    /\ dbTotal = 0
    /\ srvReqs = {}
    /\ srvLog = {}
    /\ srvCount = [id |-> 2, rid |-> 1]

Advance(r, r2) == srvReqs' = (srvReqs \ {r}) \cup {r2}
Finish(r, status, data) ==
    /\ srvReqs' = srvReqs \ {r}
    /\ srvLog' = srvLog \cup {[rid |-> r.rid, kind |-> r.kind, ch |-> r.ch, body |-> r.body,
                               saved |-> r.doc, status |-> status, data |-> data]}

\* a request arrives
SrvReceive ==
    /\ srvCount.rid <= MaxSrvReqs
    /\ \E kind \in {"PATCH", "DELETE", "POST"} :
       \E ch \in (IF kind = "POST" THEN {0} ELSE 1..(srvCount.id - 1)) :
       \E body \in (IF kind = "PATCH" THEN PatchBodies ELSE {[title |-> NoField, content |-> NoField]}) :
       \E iv \in (IF kind = "PATCH" /\ body.content.has THEN IvPool ELSE {<<>>}) :
          srvReqs' = srvReqs \cup {[rid |-> srvCount.rid, kind |-> kind, ch |-> ch, body |-> body,
                                    iv |-> iv, pc |-> "start", doc |-> Null, total |-> 0]}
    /\ srvCount' = [srvCount EXCEPT !.rid = @ + 1]
    /\ UNCHANGED <<dbChapters, dbTotal, srvLog>>

\* verifyChapterAccess: Chapter.findById
SrvLoad ==
    \E r \in srvReqs :
       /\ r.kind \in {"PATCH", "DELETE"}
       /\ r.pc = "start"
       /\ IF r.ch \in DOMAIN dbChapters
          THEN /\ Advance(r, [r EXCEPT !.pc = "loaded", !.doc = dbChapters[r.ch]])
               /\ UNCHANGED srvLog
          ELSE Finish(r, 404, Null)
       /\ UNCHANGED <<dbChapters, dbTotal, srvCount>>

\* PATCH: the whitelist, then chapter.save() with its pre-save hook; save()
\* writes the modified paths of the document that is still in the collection
SrvPatchSave ==
    \E r \in srvReqs :
       /\ r.kind = "PATCH"
       /\ r.pc = "loaded"
       /\ LET doc == preSave(patchApply(r.doc, r.body, r.iv), r.body.content.has, FALSE)
          IN  IF r.ch \in DOMAIN dbChapters
              THEN /\ dbChapters' =
                        [dbChapters EXCEPT ![r.ch] =
                            [@ EXCEPT !.title = IF r.body.title.has THEN doc.title ELSE @,
                                      !.content = IF r.body.content.has THEN doc.content ELSE @,
                                      !.wordCount = IF r.body.content.has THEN doc.wordCount ELSE @]]
                   /\ Advance(r, [r EXCEPT !.pc = "saved", !.doc = doc])
                   /\ UNCHANGED srvLog
              ELSE /\ Finish(r, 500, Null)
                   /\ UNCHANGED dbChapters
       /\ UNCHANGED <<dbTotal, srvCount>>

\* DELETE: Chapter.findByIdAndDelete
SrvDelete ==
    \E r \in srvReqs :
       /\ r.kind = "DELETE"
       /\ r.pc = "loaded"
       /\ dbChapters' = [c \in DOMAIN dbChapters \ {r.ch} |-> dbChapters[c]]
       /\ Advance(r, [r EXCEPT !.pc = "saved"])
       /\ UNCHANGED <<dbTotal, srvLog, srvCount>>

\* updateProjectWordCount: Chapter.aggregate
SrvAggregate ==
    \E r \in srvReqs :
       /\ r.pc = "saved"
       /\ Advance(r, [r EXCEPT !.pc = "summed", !.total = aggregateWordCount(dbChapters)])
       /\ UNCHANGED <<dbChapters, dbTotal, srvLog, srvCount>>

\* updateProjectWordCount: Project.findByIdAndUpdate, then the response
SrvWriteTotal ==
    \E r \in srvReqs :
       /\ r.pc = "summed"
       /\ dbTotal' = r.total
       /\ IF r.kind = "DELETE" THEN Finish(r, 200, Null)
          ELSE IF IsThrown(responseData(r.doc).content) THEN Finish(r, 500, Null)
          ELSE Finish(r, 200, responseData(r.doc))
       /\ UNCHANGED <<dbChapters, srvCount>>

\* POST: Chapter.countDocuments
SrvCount ==
    \E r \in srvReqs :
       /\ r.kind = "POST"
       /\ r.pc = "start"
       /\ Advance(r, [r EXCEPT !.pc = "counted", !.total = Cardinality(DOMAIN dbChapters)])
       /\ UNCHANGED <<dbChapters, dbTotal, srvLog, srvCount>>

\* POST: Chapter.create (the pre-save hook runs on the new document)
SrvCreate ==
    \E r \in srvReqs :
       /\ r.kind = "POST"
       /\ r.pc = "counted"
       /\ LET doc == preSave(NewChapterDoc(srvCount.id, "New Chapter", r.total), FALSE, TRUE)
          IN  /\ dbChapters' = (srvCount.id :> doc) @@ dbChapters
              /\ Finish(r, 201, doc)
       /\ srvCount' = [srvCount EXCEPT !.id = @ + 1]
       /\ UNCHANGED dbTotal


(***************************************************************************)
(* useEditorAutoSave: the debounced auto-save scheduler.                   *)
(* An UpdateChapterInput is a record of its two editor fields, Absent for  *)
(* a field the object does not have.  timerArmed says that a timeout set   *)
(* by scheduleSave has neither fired nor been cleared; pendingData is      *)
(* pendingDataRef.current; emitted lists the calls made to onAutoSave.     *)
(* owed, batch and schedLast are history: the latest scheduled value of    *)
(* every field not yet handed to onAutoSave, the edits scheduled since the *)
(* scheduler was last idle, and the last event.                            *)
(***************************************************************************)
Absent == "-"
EditTitles == {"t1", "t2"}
EditContents == {"k1", "k2"}
EditFields == {"title", "content"}
NoEdit == [title |-> Absent, content |-> Absent]
Edits == {[title |-> t, content |-> c] :
             t \in EditTitles \cup {Absent}, c \in EditContents \cup {Absent}} \ {NoEdit}

\* { ...a, ...b } on UpdateChapterInput objects (a may be null)
spreadMutReplace(a, b) == b
spread(a, b) ==
    IF a = Null THEN b
    ELSE [f \in EditFields |-> IF b[f] # Absent THEN b[f] ELSE a[f]]

\* history: what is owed once `d` was scheduled, and what is still owed after
\* `e` was handed to onAutoSave
Owe(o, d) == [f \in EditFields |-> IF d[f] = Absent THEN o[f] ELSE d[f]]
Settle(o, e) == [f \in EditFields |-> IF e[f] = o[f] THEN Absent ELSE o[f]]

\* history: the field-wise union of a burst of edits, the last value of a field winning
MergedOf(b) ==
    [f \in EditFields |->
        LET having == {i \in 1..Len(b) : b[i][f] # Absent}
        IN  IF having = {} THEN Absent
            ELSE b[CHOOSE i \in having : \A j \in having : j <= i][f]]

SchedInit ==
    /\ timerArmed = FALSE
    /\ pendingData = Null
    /\ emitted = <<>>
    /\ owed = NoEdit
    /\ batch = <<>>
    /\ nEdits = 0
    /\ mounted = TRUE
    /\ schedLast = [op |-> "mount", merged |-> 0]

scheduleSaveMutNoTimer(data) ==
    /\ pendingData' = spread(pendingData, data)
    /\ timerArmed' = timerArmed
    /\ UNCHANGED emitted

\* scheduleSave(data)
scheduleSave(data) ==
    /\ pendingData' = spread(pendingData, data)
    /\ timerArmed' = TRUE
    /\ UNCHANGED emitted

\* the setTimeout callback of scheduleSave
timerCallback ==
    /\ pendingData' = Null
    /\ emitted' = IF pendingData # Null THEN Append(emitted, pendingData) ELSE emitted
    /\ timerArmed' = FALSE

flushSaveMutEmitEmpty ==
    /\ timerArmed' = FALSE
    /\ pendingData' = Null
    /\ emitted' = Append(emitted, IF pendingData # Null THEN pendingData ELSE NoEdit)

flushSaveMutKeepTimer ==
    /\ timerArmed' = timerArmed
    /\ pendingData' = Null
    /\ emitted' = IF pendingData # Null THEN Append(emitted, pendingData) ELSE emitted

flushSaveMutDrop ==
    /\ timerArmed' = FALSE
    /\ pendingData' = Null
    /\ UNCHANGED emitted

\* flushSave()
flushSave ==
    /\ timerArmed' = FALSE
    /\ pendingData' = Null
    /\ emitted' = IF pendingData # Null THEN Append(emitted, pendingData) ELSE emitted

\* history kept along an event: the burst ends when the scheduler emits or idles
BurstEnds ==
    /\ owed' = IF Len(emitted') > Len(emitted) THEN Settle(owed, emitted'[Len(emitted')]) ELSE owed
    /\ batch' = <<>>
EndBurst(op) ==
    /\ BurstEnds
    /\ schedLast' = [op |-> op, merged |-> Len(batch)]

\* the editor's onUpdate, or the title input's onChange
ScheduleSave ==
    /\ mounted
    /\ nEdits < MaxEdits
    /\ \E data \in Edits :
          /\ scheduleSave(data)
          /\ owed' = Owe(owed, data)
          /\ batch' = Append(batch, data)
    /\ nEdits' = nEdits + 1
    /\ schedLast' = [op |-> "schedule", merged |-> 0]
    /\ UNCHANGED mounted

\* AUTOSAVE_MS pass with no further edit
TimerFire ==
    /\ timerArmed
    /\ timerCallback
    /\ EndBurst("timer")
    /\ UNCHANGED <<nEdits, mounted>>

\* window 'beforeunload'
BeforeUnload ==
    /\ mounted
    /\ flushSave
    /\ EndBurst("beforeunload")
    /\ UNCHANGED <<nEdits, mounted>>

\* document 'visibilitychange' with visibilityState 'hidden'
VisibilityHidden ==
    /\ mounted
    /\ flushSave
    /\ EndBurst("hidden")
    /\ UNCHANGED <<nEdits, mounted>>

\* the effect's cleanup when the editor unmounts
Unmount ==
    /\ mounted
    /\ flushSave
    /\ EndBurst("unmount")
    /\ mounted' = FALSE
    /\ UNCHANGED nEdits

manualSnapshotMutSkip(latest) ==
    UNCHANGED <<emitted, timerArmed, pendingData>>

\* handleKeyDown with nothing pending: `latest` is what getLatestContent
\* returned, Absent for undefined (no getter, or no editor instance yet)
manualSnapshot(latest) ==
    /\ emitted' = IF latest # Absent
                  THEN Append(emitted, [title |-> Absent, content |-> latest])
                  ELSE emitted
    /\ UNCHANGED <<timerArmed, pendingData>>

\* Ctrl+S / Cmd+S: flush what is pending, else send the editor's content;
\* the history notes what getLatestContent returned, if it was called
ManualSave ==
    /\ mounted
    /\ nEdits < MaxEdits
    /\ \E latest \in (IF pendingData # Null THEN {Absent} ELSE EditContents \cup {Absent}) :
          /\ IF pendingData # Null THEN flushSave ELSE manualSnapshot(latest)
          /\ schedLast' = [op |-> "manual", merged |-> Len(batch), latest |-> latest]
    /\ BurstEnds
    /\ nEdits' = nEdits + 1
    /\ UNCHANGED mounted

(***************************************************************************)
(* useEditor: the optimistic client store.  A handler runs to its first    *)
(* await in one step and issues a gateway call; the call is answered by    *)
(* the server (or fails), and the handler's continuation runs in a later   *)
(* step, in any order with the other calls.  A ChapterFull is the server's *)
(* document as the response shows it (content decrypted) with updatedAt; a *)
(* ChapterSummary is its list projection.  lastOp is history: the handler  *)
(* step taken last, the call it belongs to and the chapter it is about.    *)
(* lastSave is history too: the save issued last and how it ended.         *)
(***************************************************************************)
NoId == 0
MaxSeq == 3         \* user operations of the store in one run
MaxInflight == 2    \* gateway calls outstanding at once

StoreContents == {DocOneWord, DocTwoWords}
SaveInputs ==
    {[title |-> Field("A"), content |-> NoField]} \cup
    {[title |-> NoField, content |-> Field(c)] : c \in StoreContents}
NoBody == [title |-> NoField, content |-> NoField]

Stamped(doc, t) ==
    [f \in DOMAIN doc \cup {"updatedAt"} |-> IF f = "updatedAt" THEN t ELSE doc[f]]

\* the list projection of GET /chapters and of addChapter's summary
toSummary(ch) ==
    [id |-> ch.id, title |-> ch.title, order |-> ch.order, status |-> ch.status,
     wordCount |-> ch.wordCount, updatedAt |-> ch.updatedAt]

Put(m, k, v) == [x \in DOMAIN m \cup {k} |-> IF x = k THEN v ELSE m[x]]
Drop(m, k) == [x \in DOMAIN m \ {k} |-> m[x]]
FilterOut(list, chapterId) == SelectSeq(list, LAMBDA c : c.id # chapterId)
ListIds == {chapters[i].id : i \in DOMAIN chapters}

\* chapters.reduce((sum, ch) => sum + ch.wordCount, 0)
RECURSIVE SumWordCount(_)
SumWordCount(list) ==
    IF list = <<>> THEN 0 ELSE Head(list).wordCount + SumWordCount(Tail(list))

\* what PATCH with a content field leaves in the document, as the response shows it:
\* the whitelist, the pre-save hook and the decryption of the response
PatchOutcome ==
    [c \in StoreContents |->
        {LET d == preSave(patchApply(NewChapterDoc(NoId, "", 0),
                                     [title |-> NoField, content |-> Field(c)], iv),
                          TRUE, FALSE)
         IN  [content |-> responseData(d).content, wordCount |-> d.wordCount] : iv \in IvPool}]

\* the documents PATCH may leave for `body`
serverPatch(doc, body, t) ==
    LET d1 == IF body.title.has THEN [doc EXCEPT !.title = body.title.v] ELSE doc
    IN  IF body.content.has
        THEN {[d1 EXCEPT !.content = o.content, !.wordCount = o.wordCount, !.updatedAt = t] :
                 o \in PatchOutcome[body.content.v]}
        ELSE {[d1 EXCEPT !.updatedAt = IF body.title.has THEN t ELSE @]}

\* GET /chapters: Chapter.find(...).sort({ order: 1 })
RECURSIVE SortByOrder(_, _)
SortByOrder(docs, ids) ==
    IF ids = {} THEN <<>>
    ELSE LET m == CHOOSE x \in ids :
                    \A y \in ids : docs[x].order < docs[y].order
                                   \/ (docs[x].order = docs[y].order /\ x <= y)
         IN  <<toSummary(docs[m])>> \o SortByOrder(docs, ids \ {m})

InitialDocs ==
    [id \in 1..3 |-> Stamped(preSave(NewChapterDoc(id, "New Chapter", id - 1), FALSE, TRUE), 0)]

\* the state the init effect leaves: fetchEditorData resolved
StoreInit ==
    /\ gateway = [docs |-> InitialDocs, clock |-> 0, nextId |-> 4]
    /\ chapters = SortByOrder(InitialDocs, DOMAIN InitialDocs)
    /\ cache = (1 :> InitialDocs[1])
    /\ activeChapter = InitialDocs[1]
    /\ activeChapterId = 1
    /\ saveStatus = "idle"
    /\ novelWords = 0
    /\ storeError = "null"
    /\ inflight = {}
    /\ nextSeq = 1
    /\ lastOp = [op |-> "init", seq |-> 0, id |-> NoId]
    /\ lastSave = [seq |-> 0, outcome |-> "none"]

Call(seq, kind, id, body, chStatus) ==
    [seq |-> seq, kind |-> kind, id |-> id, body |-> body, chStatus |-> chStatus,
     stage |-> "sent", resp |-> Null]
CanCall(n) == nextSeq <= MaxSeq /\ Cardinality(inflight) + n <= MaxInflight
Did(op, seq, id) == lastOp' = [op |-> op, seq |-> seq, id |-> id]

loadChapterMutAlwaysFetch(chapterId, seq, active, calls) ==
    /\ activeChapter' = active
    /\ inflight' = calls \cup {Call(seq, "fetch", chapterId, NoBody, "-")}

\* loadChapter(chapterId) up to its await: the fields it sets and the call it makes
loadChapter(chapterId, seq, active, calls) ==
    IF chapterId \in DOMAIN cache'
    THEN /\ activeChapter' = cache'[chapterId]
         /\ inflight' = calls
    ELSE /\ activeChapter' = active
         /\ inflight' = calls \cup {Call(seq, "fetch", chapterId, NoBody, "-")}

\* the sidebar's onSelect
LoadChapter ==
    /\ CanCall(1)
    /\ \E chapterId \in ListIds :
          /\ cache' = cache
          /\ loadChapter(chapterId, nextSeq, activeChapter, inflight)
          /\ activeChapterId' = chapterId
          /\ Did("loadChapter", nextSeq, chapterId)
    /\ saveStatus' = "idle"
    /\ nextSeq' = nextSeq + 1
    /\ UNCHANGED <<chapters, novelWords, storeError, gateway>>

\* loadChapter after fetchChapter resolved
LoadChapterFetched ==
    \E r \in inflight :
       /\ r.kind = "fetch" /\ r.stage = "ok"
       /\ cache' = Put(cache, r.id, r.resp)
       /\ activeChapter' = r.resp
       /\ inflight' = inflight \ {r}
       /\ Did("loadChapterFetched", r.seq, r.id)
       /\ UNCHANGED <<chapters, activeChapterId, saveStatus, novelWords, storeError,
                      gateway, nextSeq>>

\* loadChapter's catch
LoadChapterFailed ==
    \E r \in inflight :
       /\ r.kind = "fetch" /\ r.stage = "fail"
       /\ storeError' = "Failed to load chapter"
       /\ inflight' = inflight \ {r}
       /\ Did("loadChapterFailed", r.seq, r.id)
       /\ UNCHANGED <<chapters, cache, activeChapter, activeChapterId, saveStatus,
                      novelWords, gateway, nextSeq>>

\* autoSave(data) up to its await
AutoSave ==
    /\ CanCall(1)
    /\ activeChapterId # NoId
    /\ \E data \in SaveInputs :
          inflight' = inflight \cup {Call(nextSeq, "save", activeChapterId, data, "-")}
    /\ saveStatus' = "saving"
    /\ Did("autoSave", nextSeq, activeChapterId)
    /\ nextSeq' = nextSeq + 1
    /\ UNCHANGED <<chapters, cache, activeChapter, activeChapterId, novelWords,
                   storeError, gateway>>

autoSaveThenMutIncrement(updated) ==
    /\ cache' = Put(cache, updated.id, updated)
    /\ chapters' = [i \in DOMAIN chapters |->
                      IF chapters[i].id = updated.id
                      THEN [chapters[i] EXCEPT !.title = updated.title,
                                               !.wordCount = updated.wordCount,
                                               !.updatedAt = updated.updatedAt]
                      ELSE chapters[i]]
    /\ activeChapter' = updated
    /\ saveStatus' = "saved"
    /\ novelWords' = novelWords + updated.wordCount

autoSaveThenMutStampAll(updated) ==
    /\ cache' = Put(cache, updated.id, updated)
    /\ chapters' = [i \in DOMAIN chapters |->
                      IF chapters[i].id = updated.id
                      THEN [chapters[i] EXCEPT !.title = updated.title,
                                               !.wordCount = updated.wordCount,
                                               !.updatedAt = updated.updatedAt]
                      ELSE [chapters[i] EXCEPT !.updatedAt = updated.updatedAt]]
    /\ activeChapter' = updated
    /\ saveStatus' = "saved"
    /\ novelWords' = SumWordCount(chapters')

\* autoSave after saveChapter resolved with `updated`
autoSaveThen(updated) ==
    /\ cache' = Put(cache, updated.id, updated)
    /\ chapters' = [i \in DOMAIN chapters |->
                      IF chapters[i].id = updated.id
                      THEN [chapters[i] EXCEPT !.title = updated.title,
                                               !.wordCount = updated.wordCount,
                                               !.updatedAt = updated.updatedAt]
                      ELSE chapters[i]]
    /\ activeChapter' = updated
    /\ saveStatus' = "saved"
    /\ novelWords' = SumWordCount(chapters')

AutoSaveResolved ==
    \E r \in inflight :
       /\ r.kind = "save" /\ r.stage = "ok"
       /\ autoSaveThen(r.resp)
       /\ inflight' = inflight \ {r}
       /\ Did("autoSaveResolved", r.seq, r.id)
       /\ UNCHANGED <<activeChapterId, storeError, gateway, nextSeq>>

autoSaveCatchMutWipe ==
    /\ saveStatus' = "error"
    /\ activeChapter' = Null
    /\ UNCHANGED <<chapters, cache, novelWords>>

\* autoSave's catch
autoSaveCatch ==
    /\ saveStatus' = "error"
    /\ UNCHANGED <<chapters, cache, activeChapter, novelWords>>

AutoSaveRejected ==
    \E r \in inflight :
       /\ r.kind = "save" /\ r.stage = "fail"
       /\ autoSaveCatch
       /\ inflight' = inflight \ {r}
       /\ Did("autoSaveRejected", r.seq, r.id)
       /\ UNCHANGED <<activeChapterId, storeError, gateway, nextSeq>>

\* addChapter() up to its await
AddChapter ==
    /\ CanCall(1)
    /\ inflight' = inflight \cup {Call(nextSeq, "create", NoId, NoBody, "-")}
    /\ Did("addChapter", nextSeq, NoId)
    /\ nextSeq' = nextSeq + 1
    /\ UNCHANGED <<chapters, cache, activeChapter, activeChapterId, saveStatus,
                   novelWords, storeError, gateway>>

addChapterThenMutNoCache(created) ==
    /\ cache' = cache
    /\ chapters' = Append(chapters, toSummary(created))
    /\ activeChapter' = created
    /\ activeChapterId' = created.id
    /\ saveStatus' = "idle"

\* addChapter after createChapter resolved: cache the chapter, list it, make it active
addChapterThen(created) ==
    /\ cache' = Put(cache, created.id, created)
    /\ chapters' = Append(chapters, toSummary(created))
    /\ activeChapter' = created
    /\ activeChapterId' = created.id
    /\ saveStatus' = "idle"

AddChapterResolved ==
    \E r \in inflight :
       /\ r.kind = "create" /\ r.stage = "ok"
       /\ addChapterThen(r.resp)
       /\ inflight' = inflight \ {r}
       /\ Did("addChapterResolved", r.seq, r.resp.id)
       /\ UNCHANGED <<novelWords, storeError, gateway, nextSeq>>

AddChapterRejected ==
    \E r \in inflight :
       /\ r.kind = "create" /\ r.stage = "fail"
       /\ storeError' = "Failed to create chapter"
       /\ inflight' = inflight \ {r}
       /\ Did("addChapterRejected", r.seq, NoId)
       /\ UNCHANGED <<chapters, cache, activeChapter, activeChapterId, saveStatus,
                      novelWords, gateway, nextSeq>>

\* removeChapter(chapterId) up to its await, the loadChapter it calls included
RemoveChapter ==
    /\ nextSeq <= MaxSeq
    /\ \E chapterId \in ListIds :
          LET wasActive == activeChapterId = chapterId
              remaining == FilterOut(chapters, chapterId)
              nextId == IF wasActive /\ Len(remaining) > 0 THEN remaining[1].id ELSE NoId
              fetches == wasActive /\ nextId # NoId /\ nextId \notin DOMAIN cache
              del == Call(nextSeq + 1, "delete", chapterId, NoBody, "-")
          IN  /\ Cardinality(inflight) + (IF fetches THEN 2 ELSE 1) <= MaxInflight
              /\ cache' = Drop(cache, chapterId)
              /\ chapters' = remaining
              /\ activeChapterId' = IF wasActive THEN nextId ELSE activeChapterId
              /\ IF wasActive /\ nextId # NoId
                 THEN /\ loadChapter(nextId, nextSeq, Null, inflight \cup {del})
                      /\ saveStatus' = "idle"
                 ELSE /\ activeChapter' = IF wasActive THEN Null ELSE activeChapter
                      /\ inflight' = inflight \cup {del}
                      /\ UNCHANGED saveStatus
              /\ Did("removeChapter", nextSeq, chapterId)
    /\ nextSeq' = nextSeq + 2
    /\ UNCHANGED <<novelWords, storeError, gateway>>

\* removeChapter after deleteChapter resolved: nothing more to do
RemoveChapterResolved ==
    \E r \in inflight :
       /\ r.kind = "delete" /\ r.stage = "ok"
       /\ inflight' = inflight \ {r}
       /\ Did("removeChapterResolved", r.seq, r.id)
       /\ UNCHANGED <<chapters, cache, activeChapter, activeChapterId, saveStatus,
                      novelWords, storeError, gateway, nextSeq>>

\* removeChapter's catch up to its await: fetchChapters
RemoveChapterRejected ==
    \E r \in inflight :
       /\ r.kind = "delete" /\ r.stage = "fail"
       /\ inflight' = (inflight \ {r}) \cup {Call(nextSeq, "list", r.id, NoBody, "-")}
       /\ Did("removeChapterRejected", r.seq, r.id)
       /\ nextSeq' = nextSeq + 1
       /\ UNCHANGED <<chapters, cache, activeChapter, activeChapterId, saveStatus,
                      novelWords, storeError, gateway>>

\* removeChapter's catch after fetchChapters resolved
RemoveChapterRefetched ==
    \E r \in inflight :
       /\ r.kind = "list" /\ r.stage = "ok"
       /\ chapters' = r.resp.items
       /\ inflight' = inflight \ {r}
       /\ Did("removeChapterRefetched", r.seq, r.id)
       /\ UNCHANGED <<cache, activeChapter, activeChapterId, saveStatus, novelWords,
                      storeError, gateway, nextSeq>>

\* fetchChapters rejected inside the catch: the rejection is not handled
RemoveChapterRefetchFailed ==
    \E r \in inflight :
       /\ r.kind = "list" /\ r.stage = "fail"
       /\ inflight' = inflight \ {r}
       /\ Did("removeChapterRefetchFailed", r.seq, r.id)
       /\ UNCHANGED <<chapters, cache, activeChapter, activeChapterId, saveStatus,
                      novelWords, storeError, gateway, nextSeq>>

\* chapters.map(c => c._id === chapterId ? { ...c, status } : c)
withStatus(list, chapterId, status) ==
    [i \in DOMAIN list |->
        IF list[i].id = chapterId THEN [list[i] EXCEPT !.status = status] ELSE list[i]]

\* s.activeChapter?._id === chapterId ? { ...s.activeChapter, status } : s.activeChapter
activeWithStatus(active, chapterId, status) ==
    IF active # Null /\ active.id = chapterId THEN [active EXCEPT !.status = status]
    ELSE active

\* toggleStatus(chapterId) up to its await; the body { status } holds no field
\* the PATCH route reads
ToggleStatus ==
    /\ CanCall(1)
    /\ \E chapterId \in ListIds :
          LET ch == chapters[CHOOSE i \in DOMAIN chapters : chapters[i].id = chapterId]
              newStatus == IF ch.status = "published" THEN "draft" ELSE "published"
          IN  /\ chapters' = withStatus(chapters, chapterId, newStatus)
              /\ activeChapter' = activeWithStatus(activeChapter, chapterId, newStatus)
              /\ cache' = IF chapterId \in DOMAIN cache
                          THEN [cache EXCEPT ![chapterId].status = newStatus]
                          ELSE cache
              /\ inflight' = inflight \cup {Call(nextSeq, "toggle", chapterId, NoBody, ch.status)}
              /\ Did("toggleStatus", nextSeq, chapterId)
    /\ nextSeq' = nextSeq + 1
    /\ UNCHANGED <<activeChapterId, saveStatus, novelWords, storeError, gateway>>

\* toggleStatus after toggleChapterStatus resolved: nothing more to do
ToggleStatusResolved ==
    \E r \in inflight :
       /\ r.kind = "toggle" /\ r.stage = "ok"
       /\ inflight' = inflight \ {r}
       /\ Did("toggleStatusResolved", r.seq, r.id)
       /\ UNCHANGED <<chapters, cache, activeChapter, activeChapterId, saveStatus,
                      novelWords, storeError, gateway, nextSeq>>

toggleStatusCatchMutKeep(chapterId, chStatus) ==
    UNCHANGED <<chapters, activeChapter>>

\* toggleStatus's catch, `chStatus` being ch.status of the call
toggleStatusCatch(chapterId, chStatus) ==
    /\ chapters' = withStatus(chapters, chapterId, chStatus)
    /\ activeChapter' = activeWithStatus(activeChapter, chapterId, chStatus)

ToggleStatusRejected ==
    \E r \in inflight :
       /\ r.kind = "toggle" /\ r.stage = "fail"
       /\ toggleStatusCatch(r.id, r.chStatus)
       /\ inflight' = inflight \ {r}
       /\ Did("toggleStatusRejected", r.seq, r.id)
       /\ UNCHANGED <<cache, activeChapterId, saveStatus, novelWords, storeError,
                      gateway, nextSeq>>

\* ---- the gateway: the server's answers to the calls
Answer(r, resp) == inflight' = (inflight \ {r}) \cup {[r EXCEPT !.stage = "ok", !.resp = resp]}
Reject(r) == inflight' = (inflight \ {r}) \cup {[r EXCEPT !.stage = "fail"]}
StoreFrame == UNCHANGED <<chapters, cache, activeChapter, activeChapterId, saveStatus,
                          novelWords, storeError, nextSeq, lastOp>>

\* GET /chapters/[chapterId]
GatewayGet ==
    \E r \in inflight :
       /\ r.kind = "fetch" /\ r.stage = "sent"
       /\ IF r.id \in DOMAIN gateway.docs THEN Answer(r, gateway.docs[r.id]) ELSE Reject(r)
       /\ UNCHANGED gateway
       /\ StoreFrame

\* PATCH /chapters/[chapterId], for saveChapter and toggleChapterStatus
GatewayPatch ==
    \E r \in inflight :
       /\ r.kind \in {"save", "toggle"} /\ r.stage = "sent"
       /\ IF r.id \in DOMAIN gateway.docs
          THEN \E d \in serverPatch(gateway.docs[r.id], r.body, gateway.clock + 1) :
                  /\ gateway' = [gateway EXCEPT !.docs[r.id] = d,
                                                !.clock = IF d = gateway.docs[r.id] THEN @ ELSE @ + 1]
                  /\ Answer(r, d)
          ELSE /\ Reject(r)
               /\ UNCHANGED gateway
       /\ StoreFrame

\* POST /chapters
GatewayPost ==
    \E r \in inflight :
       /\ r.kind = "create" /\ r.stage = "sent"
       /\ LET d == Stamped(preSave(NewChapterDoc(gateway.nextId, "New Chapter",
                                                 Cardinality(DOMAIN gateway.docs)),
                                   FALSE, TRUE),
                           gateway.clock + 1)
          IN  /\ gateway' = [docs |-> Put(gateway.docs, d.id, d),
                             clock |-> gateway.clock + 1,
                             nextId |-> gateway.nextId + 1]
              /\ Answer(r, d)
       /\ StoreFrame

\* DELETE /chapters/[chapterId]
GatewayDelete ==
    \E r \in inflight :
       /\ r.kind = "delete" /\ r.stage = "sent"
       /\ IF r.id \in DOMAIN gateway.docs
          THEN /\ gateway' = [gateway EXCEPT !.docs = Drop(@, r.id)]
               /\ Answer(r, Null)
          ELSE /\ Reject(r)
               /\ UNCHANGED gateway
       /\ StoreFrame

\* GET /chapters
GatewayList ==
    \E r \in inflight :
       /\ r.kind = "list" /\ r.stage = "sent"
       /\ Answer(r, [k |-> "list",
                     items |-> SortByOrder(gateway.docs, DOMAIN gateway.docs)])
       /\ UNCHANGED gateway
       /\ StoreFrame

\* a call that fails: the network, or a 5xx answer
GatewayFail ==
    \E r \in inflight :
       /\ r.stage = "sent"
       /\ Reject(r)
       /\ UNCHANGED gateway
       /\ StoreFrame


(***************************************************************************)
(* The client store's comment handlers (useEditor: addComment,             *)
(* removeComment, toggleResolveComment) with the chapter PATCH route's     *)
(* comment operations behind them.  A chapter is kept as its _id and its   *)
(* writerComments; both chapters have been opened, so loadChapter finds    *)
(* them in chapterCache.  A comment is its _id, text and isResolved.       *)
(***************************************************************************)
MaxCmtSeq == 3      \* comment operations of the user in one run
MaxCmtCalls == 2    \* comment calls outstanding at once
MaxNow == 2         \* Date.now() values in one run

CmtChapters == {1, 2}
CommentTexts == {<<"a">>, <<" ", "a">>, <<" ">>}

\* `temp_${Date.now()}`
tempId(now) == [k |-> "temp", n |-> now]
\* the _id Mongoose gives a pushed subdocument
Oid(n) == [k |-> "oid", n |-> n]

Comment(id, text, isResolved) == [id |-> id, text |-> text, isResolved |-> isResolved]
ChapterFull(id, comments) == [id |-> id, writerComments |-> comments]

\* input.replace(/<[^>]*>/g, '')
RECURSIVE RemoveTags(_)
RemoveTags(s) ==
    IF s = <<>> THEN <<>>
    ELSE IF Head(s) = "<" /\ IndexOfGt(Tail(s), 1) > 0
         THEN RemoveTags(SubSeq(Tail(s), IndexOfGt(Tail(s), 1) + 1, Len(s) - 1))
    ELSE <<Head(s)>> \o RemoveTags(Tail(s))

sanitizeString(input) == Trim(RemoveTags(input))

\* writerComments.filter(c => c._id !== commentId)
WithoutComment(comments, commentId) == SelectSeq(comments, LAMBDA c : c.id # commentId)

\* writerComments.map(c => c._id === commentId ? {...c, isResolved: !c.isResolved} : c)
WithToggled(comments, commentId) ==
    [i \in DOMAIN comments |->
        IF comments[i].id = commentId
        THEN [comments[i] EXCEPT !.isResolved = ~@]
        ELSE comments[i]]

CommentIds(comments) == {comments[i].id : i \in DOMAIN comments}

CmtInit ==
    /\ cmtDocs = [c \in CmtChapters |->
                    IF c = 1 THEN <<Comment(Oid(1), <<"a">>, FALSE)>> ELSE <<>>]
    /\ cmtNextOid = 2
    /\ cmtCache = [c \in CmtChapters |-> ChapterFull(c, cmtDocs[c])]
    /\ cmtActiveChapter = cmtCache[1]
    /\ cmtActiveChapterId = 1
    /\ cmtError = "null"
    /\ cmtCalls = {}
    /\ cmtNow = 1
    /\ cmtSeq = 1
    /\ cmtLast = [op |-> "init", seq |-> 0]

\* a comment call just issued; chapterId, temp and prevComments are the
\* handler's locals, kept by its closure
CmtCall(kind, chapterId, arg, temp, prevComments) ==
    [seq |-> cmtSeq, kind |-> kind, id |-> chapterId, arg |-> arg, temp |-> temp,
     prevComments |-> prevComments, stage |-> "sent", resp |-> Null]

CmtCanCall ==
    /\ cmtSeq <= MaxCmtSeq
    /\ Cardinality(cmtCalls) < MaxCmtCalls
    /\ cmtActiveChapterId # NoId
    /\ cmtActiveChapter # Null

CmtIssue(op, call) ==
    /\ cmtCalls' = cmtCalls \cup {call}
    /\ cmtLast' = [op |-> op, seq |-> cmtSeq]
    /\ cmtSeq' = cmtSeq + 1
    /\ UNCHANGED <<cmtActiveChapterId, cmtCache, cmtError, cmtDocs, cmtNextOid, cmtNow>>

\* addComment up to its await
AddComment ==
    /\ CmtCanCall
    /\ \E text \in CommentTexts :
          /\ cmtActiveChapter' =
                [cmtActiveChapter EXCEPT
                   !.writerComments = Append(@, Comment(tempId(cmtNow), text, FALSE))]
          /\ CmtIssue("addComment",
                      CmtCall("add", cmtActiveChapterId, text, tempId(cmtNow), <<>>))

\* removeComment up to its await, for a comment the tools panel lists
RemoveComment ==
    /\ CmtCanCall
    /\ \E commentId \in CommentIds(cmtActiveChapter.writerComments) :
          /\ cmtActiveChapter' =
                [cmtActiveChapter EXCEPT !.writerComments = WithoutComment(@, commentId)]
          /\ CmtIssue("removeComment",
                      CmtCall("remove", cmtActiveChapterId, commentId, Null,
                              cmtActiveChapter.writerComments))

\* toggleResolveComment up to its await, for a comment the tools panel lists
ToggleResolveComment ==
    /\ CmtCanCall
    /\ \E commentId \in CommentIds(cmtActiveChapter.writerComments) :
          /\ cmtActiveChapter' =
                [cmtActiveChapter EXCEPT !.writerComments = WithToggled(@, commentId)]
          /\ CmtIssue("toggleResolveComment",
                      CmtCall("resolve", cmtActiveChapterId, commentId, Null,
                              cmtActiveChapter.writerComments))

\* the three handlers after their await resolved:
\* chapterCache.set(updated._id, updated); activeChapter: updated
commentThen(updated) ==
    /\ cmtCache' = [cmtCache EXCEPT ![updated.id] = updated]
    /\ cmtActiveChapter' = updated

CommentResolved ==
    \E r \in cmtCalls :
       /\ r.stage = "ok"
       /\ commentThen(r.resp)
       /\ cmtCalls' = cmtCalls \ {r}
       /\ cmtLast' = [op |-> "commentResolved", seq |-> r.seq]
       /\ UNCHANGED <<cmtActiveChapterId, cmtError, cmtDocs, cmtNextOid, cmtNow, cmtSeq>>

\* addComment's catch: the comment with the temporary _id is filtered out
addCommentCatch(active, temp) ==
    IF active = Null THEN active
    ELSE [active EXCEPT !.writerComments = WithoutComment(@, temp)]

\* removeComment's and toggleResolveComment's catch: writerComments: prevComments
commentCatch(active, prevComments) ==
    IF active = Null THEN active
    ELSE [active EXCEPT !.writerComments = prevComments]

CommentRejected ==
    \E r \in cmtCalls :
       /\ r.stage = "fail"
       /\ cmtActiveChapter' = IF r.kind = "add"
                              THEN addCommentCatch(cmtActiveChapter, r.temp)
                              ELSE commentCatch(cmtActiveChapter, r.prevComments)
       /\ cmtError' = IF cmtActiveChapter = Null THEN cmtError ELSE r.resp.message
       /\ cmtCalls' = cmtCalls \ {r}
       /\ cmtLast' = [op |-> "commentRejected", seq |-> r.seq]
       /\ UNCHANGED <<cmtActiveChapterId, cmtCache, cmtDocs, cmtNextOid, cmtNow, cmtSeq>>

\* the sidebar selects a chapter: loadChapter, found in chapterCache
CmtLoadChapter ==
    /\ cmtSeq <= MaxCmtSeq
    /\ \E chapterId \in CmtChapters \ {cmtActiveChapterId} :
          /\ cmtActiveChapterId' = chapterId
          /\ cmtActiveChapter' = cmtCache[chapterId]
    /\ cmtLast' = [op |-> "loadChapter", seq |-> cmtSeq]
    /\ cmtSeq' = cmtSeq + 1
    /\ UNCHANGED <<cmtCache, cmtError, cmtCalls, cmtDocs, cmtNextOid, cmtNow>>

\* a millisecond passes
CmtTick ==
    /\ cmtNow < MaxNow
    /\ cmtNow' = cmtNow + 1
    /\ UNCHANGED <<cmtActiveChapter, cmtActiveChapterId, cmtCache, cmtError, cmtCalls,
                   cmtDocs, cmtNextOid, cmtSeq, cmtLast>>

CmtAnswer(r, stage, resp) ==
    /\ cmtCalls' = (cmtCalls \ {r}) \cup {[r EXCEPT !.stage = stage, !.resp = resp]}
    /\ UNCHANGED <<cmtActiveChapter, cmtActiveChapterId, cmtCache, cmtError, cmtNow,
                   cmtSeq, cmtLast>>

CmtSave(r, comments) ==
    /\ cmtDocs' = [cmtDocs EXCEPT ![r.id] = comments]
    /\ CmtAnswer(r, "ok", ChapterFull(r.id, comments))

CmtThrow(r, message) ==
    /\ CmtAnswer(r, "fail", [k |-> "error", message |-> message])
    /\ UNCHANGED <<cmtDocs, cmtNextOid>>

\* PATCH { addComment }: ChapterService.addComment
ServiceAddComment ==
    \E r \in cmtCalls :
       /\ r.kind = "add" /\ r.stage = "sent"
       /\ IF Trim(r.arg) = <<>>
          THEN CmtThrow(r, "Comment text is required")
          ELSE /\ CmtSave(r, Append(cmtDocs[r.id],
                                    Comment(Oid(cmtNextOid), sanitizeString(r.arg), FALSE)))
               /\ cmtNextOid' = cmtNextOid + 1

\* PATCH { removeCommentId }: ChapterService.removeComment
ServiceRemoveComment ==
    \E r \in cmtCalls :
       /\ r.kind = "remove" /\ r.stage = "sent"
       /\ CmtSave(r, WithoutComment(cmtDocs[r.id], r.arg))
       /\ UNCHANGED cmtNextOid

\* PATCH { resolveCommentId }: ChapterService.toggleCommentResolved
ServiceToggleCommentResolved ==
    \E r \in cmtCalls :
       /\ r.kind = "resolve" /\ r.stage = "sent"
       /\ IF r.arg \notin CommentIds(cmtDocs[r.id])
          THEN CmtThrow(r, "Comment not found")
          ELSE /\ CmtSave(r, WithToggled(cmtDocs[r.id], r.arg))
               /\ UNCHANGED cmtNextOid

\* a comment call that fails on the way: the network, or a 5xx answer
CmtGatewayFail ==
    \E r \in cmtCalls :
       /\ r.stage = "sent"
       /\ CmtThrow(r, "Request failed")


(***************************************************************************)
(* The server process and its secret.  ENCRYPTION_KEY is read by           *)
(* getEncryptionKey, which encryptContent and decryptContent call; loading *)
(* the module evaluates constants only.                                    *)
(***************************************************************************)
MaxKeyCalls == 2    \* encrypt and decrypt calls served in one run
SECRET_LENGTH == 64

\* process.env.ENCRYPTION_KEY: undefined, or a string
Unset == [set |-> FALSE, v |-> <<>>]
Secret(v) == [set |-> TRUE, v |-> v]

\* a secret as the README says to generate it, and ways of getting it wrong
GoodSecret == ToHex(getEncryptionKey)
Secrets ==
    {Unset, Secret(<<>>), Secret(GoodSecret),
     Secret(SubSeq(GoodSecret, 1, SECRET_LENGTH - 1)),
     Secret(GoodSecret \o <<"0">>),
     Secret([GoodSecret EXCEPT ![1] = "g"]),
     Secret([GoodSecret EXCEPT ![SECRET_LENGTH] = "g"])}

\* the checks of getEncryptionKey() on process.env.ENCRYPTION_KEY: the
\* error it throws, Null when it returns Buffer.from(key, 'hex')
getEncryptionKeyThrows(key) ==
    IF ~key.set \/ key.v = <<>> THEN Thrown("ENCRYPTION_KEY is not set")
    ELSE IF Len(key.v) # SECRET_LENGTH
    THEN Thrown("ENCRYPTION_KEY must be exactly 64 hex characters")
    ELSE Null

\* how a call that needs the key ends: getEncryptionKey throws, or
\* createCipheriv / createDecipheriv refuses a key that is not 32 bytes, or
\* the call goes through
keyedCall(secret) ==
    IF getEncryptionKeyThrows(secret) # Null THEN getEncryptionKeyThrows(secret)
    ELSE IF Len(FromHex(secret.v)) # KEY_LENGTH THEN Thrown("Invalid key length")
    ELSE [k |-> "ok", why |-> "-"]

KeyInit ==
    /\ envKey = Unset
    /\ envPhase = "undeployed"
    /\ keyLog = <<>>

\* the process is given its environment
KeyDeploy ==
    /\ envPhase = "undeployed"
    /\ envKey' \in Secrets
    /\ envPhase' = "starting"
    /\ UNCHANGED keyLog

\* the server starts: the encryption module is loaded, which reads nothing
\* of the environment
KeyStartup ==
    /\ envPhase = "starting"
    /\ envPhase' = "serving"
    /\ UNCHANGED <<envKey, keyLog>>

\* a request reaches encryptContent(content)
KeyEncryptCall ==
    /\ envPhase = "serving"
    /\ Len(keyLog) < MaxKeyCalls
    /\ \E content \in CodecDocs \cup {Str(<<"a">>)} :
          keyLog' = Append(keyLog, [op |-> "encryptContent", arg |-> content,
                                    out |-> keyedCall(envKey)])
    /\ UNCHANGED <<envKey, envPhase>>

\* a request reaches decryptContent(record), for a record written under the
\* good secret
KeyDecryptCall ==
    /\ envPhase = "serving"
    /\ Len(keyLog) < MaxKeyCalls
    /\ \E content \in CodecDocs, iv \in IvPool :
          keyLog' = Append(keyLog, [op |-> "decryptContent",
                                    arg |-> Str(encryptContent(content, iv)),
                                    out |-> keyedCall(envKey)])
    /\ UNCHANGED <<envKey, envPhase>>


(***************************************************************************)
(* ContentUtils called directly: countWords(content, type) on strings and  *)
(* documents, extractTextFromTiptap(node) on trees.                        *)
(***************************************************************************)
MaxCountLen == 4    \* characters of a string handed to countWords
MaxTreeDepth == 2   \* nesting of nodes handed to extractTextFromTiptap
MaxChildren == 2    \* entries of a node's content, or of an array

CountAlphabet == {"a", " ", "\n", "<", ">"}
RECURSIVE CountStringsUpTo(_)
CountStringsUpTo(n) ==
    IF n = 0 THEN {<<>>}
    ELSE LET shorter == CountStringsUpTo(n - 1)
         IN  shorter \cup {Append(t, c) : t \in {u \in shorter : Len(u) = n - 1},
                                         c \in CountAlphabet}
CountInputs == {Str(t) : t \in CountStringsUpTo(MaxCountLen)} \cup SampleDocs \cup {Null}
CountTypes == ContentTypes \cup {"text"}

SeqsUpTo(S, n) == UNION {[1..k -> S] : k \in 0..n}

LeafTexts == {<<"a">>, <<"b", " ">>}
RECURSIVE TreesUpTo(_)
TreesUpTo(d) ==
    LET texts == {[has |-> FALSE, t |-> <<>>]} \cup {[has |-> TRUE, t |-> t] : t \in LeafTexts}
    IN  IF d = 0 THEN {Node(x.has, x.t, FALSE, <<>>) : x \in texts}
        ELSE {Node(x.has, x.t, FALSE, <<>>) : x \in texts}
             \cup {Node(x.has, x.t, TRUE, xs) :
                      x \in texts, xs \in SeqsUpTo(TreesUpTo(d - 1), MaxChildren)}
ExtractInputs ==
    TreesUpTo(MaxTreeDepth)
    \cup {Arr(xs) : xs \in SeqsUpTo(TreesUpTo(MaxTreeDepth - 1), MaxChildren)}
    \cup {Arr(<<Str(<<"a">>), Str(<<"b", " ">>)>>), Str(<<>>), Str(<<"b", " ">>), Null}

CuInit ==
    /\ cuPc = "idle"
    /\ cuNode = Null
    /\ cuType = "-"
    /\ cuOut = Null

CountWordsCall ==
    /\ cuPc = "idle"
    /\ \E content \in CountInputs, type \in CountTypes :
          /\ cuNode' = content
          /\ cuType' = type
          /\ cuOut' = [k |-> "count", n |-> countWords(content, type)]
    /\ cuPc' = "counted"

ExtractCall ==
    /\ cuPc = "idle"
    /\ \E node \in ExtractInputs :
          /\ cuNode' = node
          /\ cuOut' = Str(extractTextFromTiptap(node))
    /\ cuPc' = "extracted"
    /\ UNCHANGED cuType


(***************************************************************************)
(* The editor page: TiptapEditor hands the store's autoSave to the         *)
(* scheduler as onAutoSave and stays mounted while the active chapter      *)
(* changes.  autoSave reads activeChapterIdRef.current when it is called.  *)
(* pgEditedIn is history: for each buffered field, the chapter that was    *)
(* active when the field's value was passed to scheduleSave.               *)
(***************************************************************************)
PgChapters == {1, 2}
NoChapters == [f \in EditFields |-> NoId]

PgInit ==
    /\ pgActiveChapterId = 1
    /\ pgSaves = <<>>
    /\ pgEditedIn = NoChapters

\* autoSave(data) up to its await: saveChapter(novelId, chapterId, data) with
\* chapterId = activeChapterIdRef.current; no call when there is none
autoSaveCall(chapterId, data, editedIn) ==
    IF chapterId = NoId THEN pgSaves
    ELSE Append(pgSaves, [chapterId |-> chapterId, data |-> data, editedIn |-> editedIn])

\* what a scheduler step means for the page: an emission is a call of autoSave
PgEmits ==
    /\ pgSaves' = IF Len(emitted') > Len(emitted)
                  THEN autoSaveCall(pgActiveChapterId, emitted'[Len(emitted')], pgEditedIn)
                  ELSE pgSaves
    /\ pgEditedIn' = IF pendingData' = Null THEN NoChapters ELSE pgEditedIn
    /\ UNCHANGED pgActiveChapterId

\* the editor's onUpdate or the title's onChange while a chapter is shown
PgScheduleSave ==
    /\ ScheduleSave
    /\ pgEditedIn' = [f \in EditFields |->
                        IF batch'[Len(batch')][f] # Absent
                        THEN pgActiveChapterId ELSE pgEditedIn[f]]
    /\ UNCHANGED <<pgActiveChapterId, pgSaves>>

PgTimerFire == TimerFire /\ PgEmits
PgVisibilityHidden == VisibilityHidden /\ PgEmits
PgBeforeUnload == BeforeUnload /\ PgEmits
PgUnmount == Unmount /\ PgEmits

\* the sidebar selects another chapter: loadChapter sets activeChapterId; the
\* editor component stays mounted and the scheduler is not told
PgLoadChapter ==
    /\ mounted
    /\ \E chapterId \in PgChapters \ {pgActiveChapterId} :
          pgActiveChapterId' = chapterId
    /\ UNCHANGED <<pgSaves, pgEditedIn, schedVars>>


(***************************************************************************)
(* Specifications.  The four parts run on their own variables: the client  *)
(* store (Spec), the scheduler (SpecSched, and SpecSchedLive with the      *)
(* timeout firing once armed and left alone), the codec run (SpecCodec)    *)
(* and the server (SpecServer).                                            *)
(***************************************************************************)
Init == CodecInit /\ SrvInit /\ SchedInit /\ StoreInit /\ CmtInit /\ KeyInit /\ CuInit /\ PgInit

OnlyStore == UNCHANGED <<codecVars, srvVars, schedVars, cmtVars, keyVars, cuVars, pgVars>>
OnlySched == UNCHANGED <<codecVars, srvVars, storeVars, cmtVars, keyVars, cuVars, pgVars>>
OnlyCodec == UNCHANGED <<srvVars, schedVars, storeVars, cmtVars, keyVars, cuVars, pgVars>>
OnlyServer == UNCHANGED <<codecVars, schedVars, storeVars, cmtVars, keyVars, cuVars, pgVars>>
OnlyComments == UNCHANGED <<codecVars, srvVars, schedVars, storeVars, keyVars, cuVars, pgVars>>
OnlyContentUtils == UNCHANGED <<codecVars, srvVars, schedVars, storeVars, cmtVars, keyVars, pgVars>>
OnlyPage == UNCHANGED <<codecVars, srvVars, storeVars, cmtVars, keyVars, cuVars>>
OnlyKey == UNCHANGED <<codecVars, srvVars, schedVars, storeVars, cmtVars, cuVars, pgVars>>

\* history: the save issued last and how its call ended, once the handler's
\* continuation or catch has run for it
SaveHistory ==
    lastSave' =
       IF lastOp' # lastOp /\ lastOp'.op = "autoSave"
       THEN [seq |-> lastOp'.seq, outcome |-> "pending"]
       ELSE IF lastOp' # lastOp /\ lastOp'.seq = lastSave.seq
               /\ lastOp'.op \in {"autoSaveResolved", "autoSaveRejected"}
            THEN [lastSave EXCEPT !.outcome =
                     IF lastOp'.op = "autoSaveResolved" THEN "ok" ELSE "fail"]
            ELSE lastSave

Next ==
    \/ LoadChapter /\ SaveHistory /\ OnlyStore
    \/ LoadChapterFetched /\ SaveHistory /\ OnlyStore
    \/ LoadChapterFailed /\ SaveHistory /\ OnlyStore
    \/ AutoSave /\ SaveHistory /\ OnlyStore
    \/ AutoSaveResolved /\ SaveHistory /\ OnlyStore
    \/ AutoSaveRejected /\ SaveHistory /\ OnlyStore
    \/ AddChapter /\ SaveHistory /\ OnlyStore
    \/ AddChapterResolved /\ SaveHistory /\ OnlyStore
    \/ AddChapterRejected /\ SaveHistory /\ OnlyStore
    \/ RemoveChapter /\ SaveHistory /\ OnlyStore
    \/ RemoveChapterResolved /\ SaveHistory /\ OnlyStore
    \/ RemoveChapterRejected /\ SaveHistory /\ OnlyStore
    \/ RemoveChapterRefetched /\ SaveHistory /\ OnlyStore
    \/ RemoveChapterRefetchFailed /\ SaveHistory /\ OnlyStore
    \/ ToggleStatus /\ SaveHistory /\ OnlyStore
    \/ ToggleStatusResolved /\ SaveHistory /\ OnlyStore
    \/ ToggleStatusRejected /\ SaveHistory /\ OnlyStore
    \/ GatewayGet /\ SaveHistory /\ OnlyStore
    \/ GatewayPatch /\ SaveHistory /\ OnlyStore
    \/ GatewayPost /\ SaveHistory /\ OnlyStore
    \/ GatewayDelete /\ SaveHistory /\ OnlyStore
    \/ GatewayList /\ SaveHistory /\ OnlyStore
    \/ GatewayFail /\ SaveHistory /\ OnlyStore

Spec == Init /\ [][Next]_vars

NextSched ==
    \/ ScheduleSave /\ OnlySched
    \/ TimerFire /\ OnlySched
    \/ BeforeUnload /\ OnlySched
    \/ VisibilityHidden /\ OnlySched
    \/ Unmount /\ OnlySched
    \/ ManualSave /\ OnlySched

SpecSched == Init /\ [][NextSched]_vars
SpecSchedLive == Init /\ [][NextSched]_vars /\ WF_vars(TimerFire /\ OnlySched)

NextCodec ==
    \/ CodecEncrypt /\ OnlyCodec
    \/ CodecTamper /\ OnlyCodec
    \/ CodecDecrypt /\ OnlyCodec
    \/ ChapterGet /\ OnlyCodec
    \/ EditorDataGet /\ OnlyCodec
    \/ CodecEncryptAgain /\ OnlyCodec
    \/ DecryptCall /\ OnlyCodec
    \/ IsEncryptedCall /\ OnlyCodec

SpecCodec == Init /\ [][NextCodec]_vars

NextServer ==
    \/ SrvReceive /\ OnlyServer
    \/ SrvLoad /\ OnlyServer
    \/ SrvPatchSave /\ OnlyServer
    \/ SrvDelete /\ OnlyServer
    \/ SrvAggregate /\ OnlyServer
    \/ SrvWriteTotal /\ OnlyServer
    \/ SrvCount /\ OnlyServer
    \/ SrvCreate /\ OnlyServer

SpecServer == Init /\ [][NextServer]_vars

NextComments ==
    \/ AddComment /\ OnlyComments
    \/ RemoveComment /\ OnlyComments
    \/ ToggleResolveComment /\ OnlyComments
    \/ CommentResolved /\ OnlyComments
    \/ CommentRejected /\ OnlyComments
    \/ CmtLoadChapter /\ OnlyComments
    \/ CmtTick /\ OnlyComments
    \/ ServiceAddComment /\ OnlyComments
    \/ ServiceRemoveComment /\ OnlyComments
    \/ ServiceToggleCommentResolved /\ OnlyComments
    \/ CmtGatewayFail /\ OnlyComments

SpecComments == Init /\ [][NextComments]_vars

NextCount == CountWordsCall /\ OnlyContentUtils

SpecCount == Init /\ [][NextCount]_vars

NextExtract == ExtractCall /\ OnlyContentUtils

SpecExtract == Init /\ [][NextExtract]_vars

NextPage ==
    \/ PgScheduleSave /\ OnlyPage
    \/ PgTimerFire /\ OnlyPage
    \/ PgVisibilityHidden /\ OnlyPage
    \/ PgBeforeUnload /\ OnlyPage
    \/ PgUnmount /\ OnlyPage
    \/ PgLoadChapter /\ OnlyPage

SpecPage == Init /\ [][NextPage]_vars

NextKey ==
    \/ KeyDeploy /\ OnlyKey
    \/ KeyStartup /\ OnlyKey
    \/ KeyEncryptCall /\ OnlyKey
    \/ KeyDecryptCall /\ OnlyKey

SpecKey == Init /\ [][NextKey]_vars

(***************************************************************************)
(* The scheduler's properties.                                             *)
(***************************************************************************)

\* C1: no edit is lost by the scheduler.  While a scheduled value of a field
\* has not been handed to onAutoSave it sits in the buffer with the timeout
\* armed (no transition drops it), and it is handed over in the end: by the
\* timeout, flushSave, beforeunload, visibilitychange or unmount.
C1_NoEditLost ==
    /\ [](owed # NoEdit => (pendingData = owed /\ timerArmed))
    /\ [](owed # NoEdit => <>(owed = NoEdit))

\* an edit was scheduled and the unmount flushed it
C1_FlushedAtUnmount ==
    /\ schedLast.op = "unmount"
    /\ schedLast.merged >= 1
    /\ Len(emitted) >= 1
    /\ owed = NoEdit

\* C3: the edits scheduled with no idle window between them produce exactly
\* one call of onAutoSave, made when the burst ends, and its payload is their
\* field-wise union with the last value of each field; nothing is emitted
\* while the burst goes on.
C3_Coalesced ==
    [][IF batch' = <<>>
       THEN batch # <<>> => emitted' = Append(emitted, MergedOf(batch))
       ELSE emitted' = emitted]_vars

\* three edits were coalesced into the one save the timeout emitted
C3_ThreeEditsOneSave ==
    /\ schedLast.op = "timer"
    /\ schedLast.merged = 3
    /\ Len(emitted) = 1

(***************************************************************************)
(* The server's property.                                                  *)
(***************************************************************************)

\* C4: after every successful PATCH with a content field, the word count
\* persisted and the word count returned are countWords of the plaintext
\* content for the chapter's contentType.
C4_WordCountOfPlaintext ==
    \A e \in srvLog :
       (e.kind = "PATCH" /\ e.status = 200 /\ e.body.content.has) =>
          /\ e.saved.wordCount = countWords(e.body.content.v, e.saved.contentType)
          /\ e.data.wordCount = countWords(e.body.content.v, e.data.contentType)

(***************************************************************************)
(* The codec's properties.                                                 *)
(***************************************************************************)

\* C7: decryptContent(encryptContent(x)) is x, for strings and for objects.
C7_RoundTrip ==
    (cpc = "decrypted" /\ ctamper = Null) => cout = cin

\* C8, as stated: a record with any one character of its authTag or
\* ciphertext part changed does not decrypt.
C8_AnyChangeRejected ==
    (cpc = "decrypted" /\ ctamper # Null) => IsThrown(cout)

\* C8, amended: a record with one hex digit of its authTag or ciphertext part
\* changed to a character that is not the same digit (another digit, or no
\* hex digit at all) does not decrypt: decryptContent throws.
C8_DigitChangeRejected ==
    (cpc = "decrypted" /\ ctamper # Null /\ HexVal(ctamper.new) # HexVal(ctamper.old))
        => IsThrown(cout)

\* a digit of the ciphertext was changed to another digit and decryption threw
C8_TamperedCiphertextThrew ==
    /\ cpc = "decrypted"
    /\ ctamper # Null
    /\ ctamper.part = "ciphertext"
    /\ HexVal(ctamper.new) # HexVal(ctamper.old)
    /\ HexVal(ctamper.new) >= 0
    /\ IsThrown(cout)

(***************************************************************************)
(* The client store's properties.  A step is recognised by the history     *)
(* lastOp it leaves.                                                       *)
(***************************************************************************)
Handled(op) == lastOp' # lastOp /\ lastOp'.op = op

\* C2: when the response of a save of chapter A is applied while another
\* chapter B is active and shown, only A's cache entry and A's list entry
\* change: the active chapter record, B's cache entry and B's list entry stay.
C2_ResponseTouchesOnlyItsChapter ==
    [][(/\ Handled("autoSaveResolved")
        /\ activeChapterId # lastOp'.id
        /\ activeChapter # Null
        /\ activeChapter.id = activeChapterId)
       => /\ activeChapter' = activeChapter
          /\ \A id \in DOMAIN cache \ {lastOp'.id} :
                id \in DOMAIN cache' /\ cache'[id] = cache[id]
          /\ \A i \in DOMAIN chapters :
                chapters[i].id # lastOp'.id => chapters'[i] = chapters[i]]_vars

\* C5: the response of a save that arrives while a newer save of the same
\* chapter is outstanding is discarded: the cache, the list and the active
\* chapter record stay as they are.
C5_StaleResponseDiscarded ==
    [][\A r \in inflight :
          (/\ r.kind = "save" /\ r.stage = "ok" /\ r \notin inflight'
           /\ \E newer \in inflight :
                 newer.kind = "save" /\ newer.id = r.id /\ newer.seq > r.seq)
          => /\ cache' = cache
             /\ chapters' = chapters
             /\ activeChapter' = activeChapter]_vars

\* C6: when saveChapter fails, saveStatus becomes 'error' and the list, the
\* cache, the active chapter record and the novel's word count are what they
\* were before the failure was handled.
C6_FailedSaveKeepsState ==
    [][Handled("autoSaveRejected")
       => /\ saveStatus' = "error"
          /\ chapters' = chapters
          /\ cache' = cache
          /\ activeChapter' = activeChapter
          /\ novelWords' = novelWords]_vars

\* a save failed while a chapter was shown
C6_SaveFailed ==
    /\ lastOp.op = "autoSaveRejected"
    /\ saveStatus = "error"
    /\ activeChapter # Null

\* the entry after the removed one in ascending order, NoId if it is the last
NextSiblingOf(list, chapterId) ==
    LET me == list[CHOOSE i \in DOMAIN list : list[i].id = chapterId]
        later == {i \in DOMAIN list : list[i].order > me.order}
    IN  IF later = {} THEN NoId
        ELSE list[CHOOSE i \in later : \A j \in later : list[i].order <= list[j].order].id

\* C9: when removeChapter deletes the active chapter and it has a next sibling
\* in ascending order, that sibling becomes the active chapter and loadChapter
\* is invoked for it: its cached record is shown, or a fetch of it is made.
C9_NextSiblingBecomesActive ==
    [][(/\ Handled("removeChapter")
        /\ lastOp'.id = activeChapterId
        /\ NextSiblingOf(chapters, activeChapterId) # NoId)
       => LET next == NextSiblingOf(chapters, activeChapterId)
          IN  /\ activeChapterId' = next
              /\ \/ (activeChapter' # Null /\ activeChapter'.id = next)
                 \/ \E r \in inflight' : r.kind = "fetch" /\ r.id = next]_vars

\* C10: a failed status toggle leaves the chapter's list entry with the status
\* it had when toggleStatus was called (ch.status of that call), whatever other
\* toggles of the chapter and their outcomes came in between.
C10_FailedToggleRestoresStatus ==
    [][\A r \in inflight :
          (r.kind = "toggle" /\ r.stage = "fail" /\ r \notin inflight')
          => \A i \in DOMAIN chapters' :
                chapters'[i].id = r.id => chapters'[i].status = r.chStatus]_vars

\* the second of two toggles of a chapter failed and 'published', the status
\* before that call, is back in the list
C10_SecondToggleFailed ==
    /\ lastOp.op = "toggleStatusRejected"
    /\ \E i \in DOMAIN chapters :
          chapters[i].id = lastOp.id /\ chapters[i].status = "published"

\* C11: toggleStatus flips the status in the list entry and in the cache
\* entry; once a failed toggle is handled, the list entry and the cache entry
\* of the chapter both hold the status captured at the call.
C11_FailedToggleRestoresListAndCache ==
    [][\A r \in inflight :
          (r.kind = "toggle" /\ r.stage = "fail" /\ r \notin inflight')
          => /\ \A i \in DOMAIN chapters' :
                   chapters'[i].id = r.id => chapters'[i].status = r.chStatus
             /\ r.id \in DOMAIN cache' => cache'[r.id].status = r.chStatus]_vars

\* C12: a created chapter gets an order above every sibling's, so once the
\* creates and deletes issued have completed no two chapters of the novel
\* have the same order.
C12_OrdersDistinct ==
    inflight = {} =>
       \A a, b \in DOMAIN gateway.docs :
          a # b => gateway.docs[a].order # gateway.docs[b].order

\* C13: with no gateway call in flight, novel.stats.currentWordCount is the
\* sum of wordCount over the chapters of the list.
C13_StatsMatchList ==
    inflight = {} => novelWords = SumWordCount(chapters)

\* C14: each time the response of a successful save is applied, the cache
\* entry and the list entry of the saved chapter hold the response's title,
\* wordCount and updatedAt, and novel.stats.currentWordCount is the sum of
\* wordCount over the updated list, other saves being outstanding or not.
C14_SaveResponseMerged ==
    [][\A r \in inflight :
          (r.kind = "save" /\ r.stage = "ok" /\ r \notin inflight')
          => /\ r.resp.id \in DOMAIN cache'
             /\ cache'[r.resp.id].title = r.resp.title
             /\ cache'[r.resp.id].wordCount = r.resp.wordCount
             /\ cache'[r.resp.id].updatedAt = r.resp.updatedAt
             /\ \A i \in DOMAIN chapters' :
                   chapters'[i].id = r.resp.id =>
                      /\ chapters'[i].title = r.resp.title
                      /\ chapters'[i].wordCount = r.resp.wordCount
                      /\ chapters'[i].updatedAt = r.resp.updatedAt
             /\ novelWords' = SumWordCount(chapters')]_vars

\* the response of a content save was applied, its chapter being in the list,
\* while another save was outstanding
C14_SaveAppliedDuringAnother ==
    /\ lastOp.op = "autoSaveResolved"
    /\ \E i \in DOMAIN chapters : chapters[i].id = lastOp.id /\ chapters[i].wordCount = 1
    /\ novelWords = 1
    /\ \E r \in inflight : r.kind = "save" /\ r.id = lastOp.id

(***************************************************************************)
(* More of the scheduler's properties.                                     *)
(***************************************************************************)
FlushOps == {"beforeunload", "hidden", "unmount", "manual"}

\* C15: flushSave with an edit pending cancels the armed timer and emits the
\* buffered edit at once, exactly once, leaving the scheduler idle (no timer,
\* empty buffer); and every emission of the scheduler takes a non-empty
\* buffer (or is the snapshot of a manual save), so nothing that runs after
\* the flush can emit the flushed edit a second time.
C15_FlushEmitsOnce ==
    /\ [][(pendingData # Null /\ schedLast'.op \in FlushOps)
          => /\ emitted' = Append(emitted, pendingData)
             /\ ~timerArmed'
             /\ pendingData' = Null]_vars
    /\ [][emitted' # emitted
          => /\ Len(emitted') = Len(emitted) + 1
             /\ (pendingData # Null \/ schedLast'.op = "manual")
             /\ pendingData' = Null]_vars

\* a pending edit was flushed when the page was hidden
C15_FlushedWhenHidden ==
    /\ schedLast.op = "hidden"
    /\ schedLast.merged >= 1
    /\ Len(emitted) = 1
    /\ ~timerArmed
    /\ pendingData = Null

\* the events that do nothing but call flushSave
PureFlushOps == {"beforeunload", "hidden", "unmount"}

\* C16: flushSave with nothing pending emits no save (and changes nothing),
\* so of two flushSave calls in a row the second emits nothing: the two emit
\* at most one save.
C16_FlushIdempotent ==
    /\ [][(pendingData = Null /\ schedLast'.op \in PureFlushOps)
          => (emitted' = emitted /\ pendingData' = Null /\ timerArmed' = timerArmed)]_vars
    /\ [][(schedLast.op \in PureFlushOps /\ schedLast'.op \in PureFlushOps)
          => emitted' = emitted]_vars

\* the unmount called flushSave with nothing pending, after the one edit of
\* the run had been emitted
C16_FlushedWithNothingPending ==
    /\ schedLast.op = "unmount"
    /\ schedLast.merged = 0
    /\ nEdits = 1
    /\ Len(emitted) = 1

\* a step of handleKeyDown for Ctrl/Cmd+S
ManualStep == schedLast'.op = "manual" /\ nEdits' = nEdits + 1

\* C17, as stated: the manual-save trigger always results in a save being
\* emitted.
C17_ManualSaveAlwaysEmits ==
    [][ManualStep => Len(emitted') = Len(emitted) + 1]_vars

\* C17, amended: the manual-save trigger flushes a pending edit; with nothing
\* pending it emits a save carrying the snapshot getLatestContent returns, and
\* emits nothing when there is no snapshot (getLatestContent is not given or
\* returns undefined).
C17_ManualSaveFlushesOrSnapshots ==
    [][ManualStep =>
          IF pendingData # Null
          THEN emitted' = Append(emitted, pendingData) /\ pendingData' = Null
          ELSE IF schedLast'.latest # Absent
          THEN emitted' = Append(emitted, [title |-> Absent, content |-> schedLast'.latest])
          ELSE emitted' = emitted]_vars

\* Ctrl/Cmd+S with nothing pending sent a snapshot of the content
C17_SnapshotSent ==
    /\ schedLast.op = "manual"
    /\ schedLast.merged = 0
    /\ schedLast.latest # Absent
    /\ Len(emitted) = 1
    /\ emitted[1].content = schedLast.latest

(***************************************************************************)
(* More of the client store's properties.                                  *)
(***************************************************************************)
NewFetches == {r \in inflight' \ inflight : r.kind = "fetch"}

\* C18: loadChapter is cache-first.  Called (from the sidebar, or by
\* removeChapter for the next chapter) for a chapter in the cache it makes no
\* gateway call and the cached record is the active chapter at once; for a
\* chapter not in the cache it makes exactly one fetchChapter call, and when
\* that call succeeds the result is stored in the cache and made the active
\* chapter.
C18_LoadChapterCacheFirst ==
    /\ [][((Handled("loadChapter") \/ (Handled("removeChapter") /\ lastOp'.id = activeChapterId))
           /\ activeChapterId' # NoId)
          => IF activeChapterId' \in DOMAIN cache'
             THEN /\ NewFetches = {}
                  /\ activeChapter' = cache'[activeChapterId']
             ELSE /\ Cardinality(NewFetches) = 1
                  /\ \A r \in NewFetches : r.id = activeChapterId' /\ r.stage = "sent"]_vars
    /\ [][\A r \in inflight :
             (r.kind = "fetch" /\ r.stage = "ok" /\ r \notin inflight')
             => /\ r.id \in DOMAIN cache' /\ cache'[r.id] = r.resp
                /\ activeChapter' = r.resp
                /\ NewFetches = {}]_vars

\* chapter 2, fetched earlier in the run, was selected again and shown from
\* the cache with no call made
C18_ShownFromCache ==
    /\ lastOp.op = "loadChapter"
    /\ lastOp.id = 2
    /\ lastOp.seq = 3
    /\ 2 \in DOMAIN cache
    /\ activeChapter = cache[2]
    /\ inflight = {}

\* the identities the gateway holds, in list order
GatewayIds == [i \in 1..Cardinality(DOMAIN gateway.docs) |->
                 SortByOrder(gateway.docs, DOMAIN gateway.docs)[i].id]

StoreIds == [i \in DOMAIN chapters |-> chapters[i].id]

\* C19: when deleteChapter fails the store issues no second delete and one
\* fetchChapters call, and once that catch block is over the chapter list
\* holds the chapters the gateway holds (the list is resynchronised).
C19_FailedDeleteResynchronises ==
    /\ [][\A r \in inflight :
             (r.kind = "delete" /\ r.stage = "fail" /\ r \notin inflight')
             => /\ \A n \in inflight' \ inflight : n.kind = "list"
                /\ Cardinality(inflight' \ inflight) = 1]_vars
    /\ [][\A r \in inflight :
             (r.kind = "list" /\ r.stage \in {"ok", "fail"} /\ r \notin inflight'
              /\ inflight' = {})
             => StoreIds' = GatewayIds']_vars

(***************************************************************************)
(* The comment handlers' properties.                                       *)
(***************************************************************************)
\* the temporary identities whose addComment call is still outstanding
OutstandingTempIds == {r.temp : r \in {c \in cmtCalls : c.kind = "add"}}

\* C20: a comment with a temporary identity is in the active chapter's
\* comment collection only while the addComment call that made it is
\* outstanding: once that call has resolved and been handled, on success or
\* on failure, no comment with that identity remains.
C20_NoTempCommentAfterResolve ==
    cmtActiveChapter # Null =>
       \A id \in CommentIds(cmtActiveChapter.writerComments) :
          id.k = "temp" => id \in OutstandingTempIds

(***************************************************************************)
(* The client store's properties, continued.                               *)
(***************************************************************************)
\* C21: when createChapter resolves, addChapter appends exactly one entry to
\* the list and adds exactly one entry to the cache, both under the identity
\* of the creation response, and makes that chapter the active one; when it
\* rejects, the list, the cache and the active chapter stay as they are and
\* an error is set.
C21_AddChapterAddsOne ==
    [][\A r \in inflight :
          (r.kind = "create" /\ r.stage # "sent" /\ r \notin inflight') =>
             IF r.stage = "ok"
             THEN /\ Len(chapters') = Len(chapters) + 1
                  /\ SubSeq(chapters', 1, Len(chapters)) = chapters
                  /\ chapters'[Len(chapters')].id = r.resp.id
                  /\ DOMAIN cache' = DOMAIN cache \cup {r.resp.id}
                  /\ r.resp.id \notin DOMAIN cache
                  /\ cache'[r.resp.id] = r.resp
                  /\ \A c \in DOMAIN cache : cache'[c] = cache[c]
                  /\ activeChapter' = r.resp
                  /\ activeChapterId' = r.resp.id
             ELSE /\ r.stage = "fail"
                  /\ UNCHANGED <<chapters, cache, activeChapter, activeChapterId>>
                  /\ storeError' # "null"]_vars

\* a creation succeeded after an earlier one had failed
C21_CreatedAfterFailure ==
    /\ lastOp.op = "addChapterResolved"
    /\ storeError # "null"
    /\ activeChapterId = lastOp.id
    /\ lastOp.id \in DOMAIN cache
    /\ chapters[Len(chapters)].id = lastOp.id

\* C22: in every reachable state the store's chapter list is in ascending
\* order of the chapters' order field (equal neighbours allowed).
C22_ListSortedByOrder ==
    \A i, j \in DOMAIN chapters : i < j => chapters[i].order <= chapters[j].order

(***************************************************************************)
(* The codec's and the read paths' properties, continued.                  *)
(***************************************************************************)
\* C23: on a read path, when the stored content is an encrypted record whose
\* decryption fails, the response is an error, never a chapter whose content
\* is some other value.
C23_DecryptFailureSurfaced ==
    (cpc \in {"fetched", "bootstrapped"} /\ isEncrypted(Str(crec))
     /\ IsThrown(decryptContent(crec)))
    => IsThrown(cout)

\* how many separators a string holds
Colons(t) == Cardinality({i \in 1..Len(t) : t[i] = SEPARATOR})

\* C24: decryptContent throws, and so returns nothing, for every string that
\* does not split on ':' into exactly three parts (every string that does
\* not hold exactly two ':').
C24_BadFormatThrows ==
    (cpc = "probed" /\ Colons(crec) # 2) => IsThrown(cout)

\* a string of four parts was refused
C24_FourPartsRefused ==
    /\ cpc = "probed"
    /\ Colons(crec) = 3
    /\ crec[1] = "a"
    /\ IsThrown(cout)

HexDigits ==
    {"0", "1", "2", "3", "4", "5", "6", "7", "8", "9",
     "a", "b", "c", "d", "e", "f", "A", "B", "C", "D", "E", "F"}

\* a string of exactly three parts, none empty, all of hex digits of either case
ThreeHexParts(t) ==
    /\ Colons(t) = 2
    /\ \A i \in 1..Len(t) : t[i] # SEPARATOR => t[i] \in HexDigits
    /\ t[1] # SEPARATOR /\ t[Len(t)] # SEPARATOR
    /\ \A i \in 1..(Len(t) - 1) : ~(t[i] = SEPARATOR /\ t[i + 1] = SEPARATOR)

\* C25: isEncrypted(v) is true exactly when v is a string that splits on ':'
\* into exactly three parts, each made of hex digits of either case (at
\* least one of them), and false for every other value.
C25_IsEncryptedExactly ==
    cpc = "checked" => (cout.v <=> (cin.k = "str" /\ ThreeHexParts(cin.s)))

\* a record with an upper-case digit was recognised
C25_UpperCaseRecognised ==
    /\ cpc = "checked"
    /\ cin = Str(<<"a", SEPARATOR, "F", SEPARATOR, "a">>)
    /\ cout.v

\* the initialization vector a stored record was made with
IvOf(rec) == FromHex(SplitOn(rec, SEPARATOR)[1])

C27_NoCallFailsOnTheSecret ==
    \A i \in DOMAIN keyLog : ~IsThrown(keyLog[i].out)

(***************************************************************************)
(* ContentUtils' properties.                                               *)
(***************************************************************************)
\* the plain text countWords counts in, by content type
plainTextOf(content, type) ==
    IF type = "tiptap" THEN extractTextFromTiptap(content)
    ELSE IF content.k # "str" THEN <<>>
    ELSE IF type = "html" THEN StripTags(content.s)
    ELSE content.s

\* the places of a text where a run of non-whitespace characters begins
WordStarts(t) == {i \in 1..Len(t) : ~IsSpace(t[i]) /\ (i = 1 \/ IsSpace(t[i - 1]))}

\* C28: for every content type countWords returns the number of non-empty
\* tokens of the plain text split on runs of whitespace (the number of its
\* runs of non-whitespace characters), and 0 when the plain text is empty or
\* all whitespace.
C28_CountsTokens ==
    cuPc = "counted" =>
       LET t == plainTextOf(cuNode, cuType)
       IN  /\ cuOut.n = Cardinality(WordStarts(t))
           /\ (\A i \in 1..Len(t) : IsSpace(t[i])) => cuOut.n = 0

\* a markdown string of two words around a line break and a blank was counted
C28_TwoWordsCounted ==
    /\ cuPc = "counted"
    /\ cuType = "markdown"
    /\ cuNode = Str(<<"a", "\n", " ", "a">>)
    /\ cuOut.n = 2

\* the text leaves of a value, depth first, a node's own text before its content
RECURSIVE Leaves(_)
Leaves(node) ==
    IF node = Null THEN <<>>
    ELSE IF node.k = "str" THEN IF node.s = <<>> THEN <<>> ELSE <<node.s>>
    ELSE IF node.k = "arr"
         THEN IF node.xs = <<>> THEN <<>>
              ELSE Leaves(Head(node.xs)) \o Leaves(Arr(Tail(node.xs)))
    ELSE (IF node.hasText /\ node.text # <<>> THEN <<node.text>> ELSE <<>>)
         \o (IF node.hasContent THEN Leaves(Arr(node.content)) ELSE <<>>)

WordsOf(t) == FilterNonEmpty(SplitWs(Trim(t)))

RECURSIVE WordsOfAll(_)
WordsOfAll(ts) == IF ts = <<>> THEN <<>> ELSE WordsOf(Head(ts)) \o WordsOfAll(Tail(ts))

\* C29: extractTextFromTiptap returns a string as it is, an array as the
\* texts of its elements joined by single blanks, and for any tree a text in
\* which the words of every text leaf stand in document order, a node's own
\* text before that of its content; it returns for every acyclic tree.
C29_DepthFirstInOrder ==
    cuPc = "extracted" =>
       /\ (cuNode # Null /\ cuNode.k = "str") => cuOut.s = cuNode.s
       /\ (cuNode # Null /\ cuNode.k = "arr") =>
             cuOut.s = JoinWith([i \in 1..Len(cuNode.xs) |->
                                    extractTextFromTiptap(cuNode.xs[i])], <<" ">>)
       /\ WordsOf(cuOut.s) = WordsOfAll(Leaves(cuNode))

\* a node with its own text "a" and a child holding "b " gave "a b"
C29_OwnTextThenChildren ==
    /\ cuPc = "extracted"
    /\ cuNode = Node(TRUE, <<"a">>, TRUE, <<TextNode(<<"b", " ">>)>>)
    /\ cuOut.s = <<"a", " ", "b">>

(***************************************************************************)
(* The editor page's properties.                                           *)
(***************************************************************************)
\* C30: every save the scheduler's emission leads to goes to the chapter
\* that was active when its edits were passed to scheduleSave: each field a
\* save carries was edited in the chapter the save is addressed to.
C30_SavedToTheChapterEdited ==
    \A i \in DOMAIN pgSaves :
       \A f \in EditFields :
          pgSaves[i].data[f] # Absent => pgSaves[i].editedIn[f] = pgSaves[i].chapterId

(***************************************************************************)
(* The store's consistency while calls resolve.                            *)
(***************************************************************************)
\* C31: in every reachable state of the store, a non-null activeChapter is
\* the chapter activeChapterId names, also while calls issued for a chapter
\* that was active before are outstanding and after they resolve.
C31_ActiveChapterIsTheActiveId ==
    activeChapter # Null => activeChapter.id = activeChapterId

\* C32: whatever content the write path encrypts, isEncrypted recognises the
\* stored record, so a chapter read decrypts it and never answers with the
\* record string itself.
C32_WrittenRecordIsRecognised ==
    (ctamper = Null /\ cpc \in {"encrypted", "fetched"}) =>
        /\ isEncrypted(Str(crec))
        /\ cpc = "fetched" => cout # Str(crec)

\* C33: once no save is in flight, saveStatus is 'saved' only if the save
\* issued last succeeded, whatever order the responses arrived in.
C33_SavedMeansLastSaveSucceeded ==
    ((\A r \in inflight : r.kind # "save") /\ saveStatus = "saved") =>
        lastSave.outcome = "ok"

\* C34: every key of the chapter cache is the id of a chapter in the list;
\* no response arriving after a chapter's optimistic deletion puts its
\* entry back.
C34_CacheKeysAreListed == DOMAIN cache \subseteq ListIds

(***************************************************************************)
(* The server's requests running side by side.                             *)
(***************************************************************************)
\* C35: once every save and delete request of the novel has completed, the
\* novel's stats.currentWordCount is the sum of wordCount over the chapters
\* that remain, however the requests' steps interleaved.
C35_TotalMatchesWhenQuiet ==
    srvReqs = {} => dbTotal = aggregateWordCount(dbChapters)

(***************************************************************************)
(* The comment handlers' rollback.                                         *)
(***************************************************************************)
\* C36: the catch of removeComment or toggleResolveComment takes back its
\* own optimistic change only: when the chapter it was issued for is shown
\* with exactly the comments the server holds (what the mutations that
\* succeeded left) and no other call is outstanding, handling the failure
\* leaves those comments in place.
C36_RollbackKeepsOtherMutations ==
    [][\A r \in cmtCalls :
          (/\ cmtCalls = {r}
           /\ r.kind \in {"remove", "resolve"}
           /\ r.stage = "fail"
           /\ r \notin cmtCalls'
           /\ cmtLast' = [op |-> "commentRejected", seq |-> r.seq]
           /\ cmtActiveChapter # Null
           /\ cmtActiveChapterId = r.id
           /\ cmtActiveChapter.writerComments = cmtDocs[r.id])
          => cmtActiveChapter'.writerComments = cmtDocs[r.id]]_vars

(***************************************************************************)
(* The scheduler's two states.                                             *)
(***************************************************************************)
\* C37: in every reachable state of the scheduler a timer that has neither
\* fired nor been cleared is armed exactly when the buffer of pending edits
\* is not empty: Idle has neither, Pending has both.
C37_TimerArmedIffPending == timerArmed <=> pendingData # Null

\* Pending again after a burst was emitted, with a manual save in between
C37_PendingAfterEmission ==
    /\ timerArmed
    /\ pendingData # Null
    /\ Len(emitted) >= 2
    /\ schedLast.op = "schedule"

(***************************************************************************)
(* What a save response leaves alone.                                      *)
(***************************************************************************)
\* C38: applying the response of a save of chapter X leaves the list entry
\* and the cache entry of every other chapter as they were, and leaves the
\* order and the status of X's list entry as they were.
C38_SaveResponseFrame ==
    [][\A r \in inflight :
          (r.kind = "save" /\ r.stage = "ok" /\ r \notin inflight')
          => /\ DOMAIN cache' = DOMAIN cache \cup {r.resp.id}
             /\ \A id \in DOMAIN cache \ {r.resp.id} : cache'[id] = cache[id]
             /\ DOMAIN chapters' = DOMAIN chapters
             /\ \A i \in DOMAIN chapters :
                   IF chapters[i].id = r.resp.id
                   THEN /\ chapters'[i].id = chapters[i].id
                        /\ chapters'[i].order = chapters[i].order
                        /\ chapters'[i].status = chapters[i].status
                   ELSE chapters'[i] = chapters[i]]_vars

\* a save response was applied to a published chapter while another chapter
\* was cached
C38_AppliedToPublishedChapter ==
    /\ lastOp.op = "autoSaveResolved"
    /\ DOMAIN cache \ {lastOp.id} # {}
    /\ \E i \in DOMAIN chapters :
          /\ chapters[i].id = lastOp.id
          /\ chapters[i].status = "published"
          /\ chapters[i].updatedAt > 0

\* C39: two create requests of one novel get different order values, however
\* their count and insert steps interleave (no chapter being deleted
\* meanwhile).
C39_CreatesGetDistinctOrders ==
    (\A r \in srvReqs \cup srvLog : r.kind # "DELETE") =>
        \A a, b \in {l \in srvLog : l.kind = "POST" /\ l.status = 201} :
           a.rid # b.rid => a.data.order # b.data.order
====
